---- MODULE Spec2Model ----
(***************************************************************************)
(* Dashium: the authentication manager (src/auth.py), the periodic timer   *)
(* that drives its session sweep (src/timer.py) and the request handler    *)
(* that gates and dispatches HTTP requests (src/web_server.py).            *)
(*                                                                         *)
(* Strings whose characters matter (usernames, the login "next" value,     *)
(* request paths) are sequences of one-character strings.  Passwords are   *)
(* opaque strings.  An Optional value is a sequence of length 0 (None) or  *)
(* 1.  Time is an integer clock; one unit stands for the granularity at    *)
(* which datetime.now() is compared.                                       *)
(***************************************************************************)
EXTENDS Integers, Sequences, FiniteSets, TLC

(***************************************************************************)
(* Bounds of the model and the configuration the manager is built with.    *)
(***************************************************************************)
MaxTime == 3
MaxSessions == 2
MaxUsers == 1
session_timeout_hours == 1
lock_after_failed_attempts == 2
lock_after_failed_attempts_time_minutes == 2
NumWorkers == 2
MaxConcurrent == 2

NoneVal == <<>>
Some(v) == <<v>>

UserNames == {<<"a">>, <<" ", "a">>}
UserNameInputs == UserNames \cup {<<"b">>, <<>>}
RawPasswords == {"x", "y"}
\* The (username, password) entries of config.USERS that engine.py feeds to
\* create_user.
ConfiguredUsers == {<<(<<"a">>), "x">>, <<(<<" ", "a">>), "y">>}

VARIABLES
    users,                  \* AuthenticationManager.users (list of User)
    sessions,               \* AuthenticationManager.sessions (session id -> Session)
    failed_attempts,        \* AuthenticationManager.failed_attempts
    lock_until,             \* AuthenticationManager.lock_until (Optional datetime)
    next_session_debug_id,  \* Session._next_session_debug_id
    now,                    \* the wall clock read by datetime.now()
    auth_required,          \* CustomHTTPRequestHandler.auth_required
    last,                   \* the last call or request and what it returned
    streak,                 \* history: failed authenticate calls in a row
    pc,                     \* per thread: the statement it is about to run
    loc,                    \* per thread: its request and local variables
    res,                    \* per thread: what its request was answered with
    detached,               \* Session objects deleted from the map, still referenced
    start,                  \* history: the manager when the threads were last all idle
    tpl,                    \* SimpleTemplateEngine: the render_template call in progress
    _auth_manager,          \* auth.py: the global _auth_manager (Optional instance)
    heap                    \* web_server.py: the dicts and lists the page requests share

threads == <<pc, loc, res, detached, start>>

vars == <<users, sessions, failed_attempts, lock_until, next_session_debug_id, now,
          auth_required, last, streak, pc, loc, res, detached, start, tpl,
          _auth_manager, heap>>

\* The threads that reach the manager: thread 0 is the timer's daemon thread
\* running _cleanup_sessions, the others are the request threads of the
\* ThreadingTCPServer.
SweepThread == 0
Workers == 1..NumWorkers
Threads == {SweepThread} \cup Workers

\* The local variables of a thread that runs nothing.
NoLocals == [op |-> "none", sid |-> 0, username |-> <<>>, password |-> "",
             call |-> 0, tmp |-> 0, t0 |-> 0, size0 |-> 0, pos |-> 0,
             expired |-> <<>>]

\* No render_template call is in progress.
NoRender == [phase |-> "none"]

\* The objects of the page requests.  obj[SeedAddr] is the context dict a
\* view was registered with (web_views.py: a title and the collectors list);
\* obj[w] is the dict worker w made for its request; links is the list
\* config["top_bar_links"]; req[w] is the request of worker w.  A write of a
\* context processor is the ordinal of its request.
SeedAddr == 0
RegisteredContext == [page_title |-> "Admin", collectors |-> <<[module |-> "m", status |-> 0]>>,
                      events |-> 0]
NoRequest == [phase |-> "idle", id |-> 0, mutation |-> "none", base |-> 0,
              seen |-> [context |-> RegisteredContext, top_bar_links |-> <<>>]]
HeapInit ==
    [obj |-> [a \in {SeedAddr} \cup Workers |-> RegisteredContext],
     links |-> <<>>,
     req |-> [w \in Workers |-> NoRequest],
     requests |-> 0]

\* No thread has started: the state of the threads after WebServer.start.
ThreadsInit ==
    /\ pc = [t \in Threads |-> "idle"]
    /\ loc = [t \in Threads |-> NoLocals]
    /\ res = [t \in Threads |-> NoneVal]
    /\ detached = <<>>
    /\ start = [sessions |-> sessions, failed_attempts |-> failed_attempts,
                lock_until |-> lock_until, next |-> next_session_debug_id]

(***************************************************************************)
(* auth.py                                                                 *)
(***************************************************************************)
User(username, hashed_password) ==
    [username |-> username, hashed_password |-> hashed_password]

Session(user, t) == [user |-> user, created_at |-> t, last_access |-> t]

\* hashlib.sha256(password).hexdigest(): a one-way, injective-in-practice
\* digest whose value is never the text it was computed from.
_hash_password(password) == "sha256(" \o password \o ")"

PasswordInputs == RawPasswords \cup {_hash_password(p) : p \in RawPasswords}

\* secrets.token_urlsafe(32): a fresh token for every call; the n-th token
\* generated is named by n.
_generate_session_id == next_session_debug_id

UsernameExists(us, username) == \E i \in 1..Len(us) : us[i].username = username

create_user_ret(us, username) == ~UsernameExists(us, username)

create_user_users(us, username, raw_password) ==
    IF UsernameExists(us, username) THEN us
    ELSE Append(us, User(username, _hash_password(raw_password)))

\* is_locked(): the value returned, and the lock state it leaves behind.
LockExpired(lu, t) == t >= lu[1]

is_locked_ret_never(lu, t) == FALSE

is_locked_ret(lu, t) == lu # NoneVal /\ ~LockExpired(lu, t)

is_locked_lock_until(lu, t) ==
    IF lu # NoneVal /\ LockExpired(lu, t) THEN NoneVal ELSE lu

is_locked_failed_attempts_kept(fa, lu, t) == fa

is_locked_failed_attempts(fa, lu, t) ==
    IF lu # NoneVal /\ LockExpired(lu, t) THEN 0 ELSE fa

\* authenticate(): the password compared against the stored hash.
DefaultPasswordIsHashed_raw == FALSE

DefaultPasswordIsHashed == TRUE

HashedPassword(password, password_is_hashed) ==
    IF password_is_hashed THEN password ELSE _hash_password(password)

\* The first user of the list matching both fields, 0 when none does.
FindUser(us, username, hashed_password) ==
    LET hits == {i \in 1..Len(us) : /\ us[i].username = username
                                    /\ us[i].hashed_password = hashed_password}
    IN IF hits = {} THEN 0 ELSE CHOOSE i \in hits : \A j \in hits : i <= j

ShouldLock_above(fa) == fa > lock_after_failed_attempts

ShouldLock(fa) == fa >= lock_after_failed_attempts

LockUntilAfterFailure_always(fa, lu, t) ==
    Some(t + lock_after_failed_attempts_time_minutes)

LockUntilAfterFailure(fa, lu, t) ==
    IF ShouldLock(fa) THEN Some(t + lock_after_failed_attempts_time_minutes) ELSE lu

\* Session expiry test shared by retrieve_user_by_session_id and the sweep.
SessionExpired_at(s, t) == t - s.last_access >= session_timeout_hours

SessionExpired(s, t) == t - s.last_access > session_timeout_hours

PutSession_alone(ss, sid, s) == [k \in {sid} |-> s]

PutSession(ss, sid, s) ==
    [k \in DOMAIN ss \cup {sid} |-> IF k = sid THEN s ELSE ss[k]]

DelSession(ss, sid) == [k \in DOMAIN ss \ {sid} |-> ss[k]]

ExpiredSessions_all(ss, t) == DOMAIN ss

ExpiredSessions(ss, t) == {k \in DOMAIN ss : SessionExpired(ss[k], t)}

_cleanup_sessions_failed_attempts_kept(fa) == fa

\* _cleanup_sessions: self.failed_attempts = 0
_cleanup_sessions_failed_attempts(fa) == 0

_cleanup_sessions_result(ss, t) ==
    [k \in DOMAIN ss \ ExpiredSessions(ss, t) |-> ss[k]]

(***************************************************************************)
(* History of the run: n counts the authenticate calls that returned None  *)
(* one after the other, starting from an unlocked manager with no failed   *)
(* attempt and with no other call in between (-1: no such run is under     *)
(* way); t is the time of the last of the first N of them.  The passing of *)
(* time and the return of a call are not calls.                            *)
(***************************************************************************)
\* The sweeps cut the run into intervals: since counts the authenticate
\* calls that returned None since the last sweep (or the start), total those
\* of the whole run, both up to lock_after_failed_attempts, and under tells
\* that no interval so far has held lock_after_failed_attempts of them;
\* failed_as holds the usernames of the calls that were counted as failures.
NoStreak == [n |-> 0, t |-> 0, since |-> 0, total |-> 0, under |-> TRUE,
             failed_as |-> {}]

Capped(k) == IF k < lock_after_failed_attempts THEN k ELSE lock_after_failed_attempts

StreakAfter(st, l, lu, fa, t) ==
    IF l.op = "idle" THEN st
    ELSE
    LET failed == l.op = "authenticate" /\ l.ret = NoneVal
        since == IF l.op = "_cleanup_sessions" THEN 0
                 ELSE IF failed THEN Capped(st.since + 1) ELSE st.since
        intervals == [since |-> since,
                      total |-> IF failed THEN Capped(st.total + 1) ELSE st.total,
                      under |-> st.under /\ since < lock_after_failed_attempts,
                      failed_as |-> IF failed /\ ~l.rejected
                                    THEN st.failed_as \cup {l.username}
                                    ELSE st.failed_as]
    IN
    IF failed /\ st.n >= 0 /\ st.n <= lock_after_failed_attempts
    THEN [n |-> st.n + 1, t |-> IF st.n < lock_after_failed_attempts THEN t ELSE st.t]
         @@ intervals
    ELSE IF lu = NoneVal /\ fa = 0 THEN [n |-> 0, t |-> 0] @@ intervals
    ELSE [n |-> -1, t |-> 0] @@ intervals

Observe ==
    /\ streak' = StreakAfter(streak, last', lock_until', failed_attempts', now')
    /\ UNCHANGED <<threads, tpl, _auth_manager, heap>>

\* The value of the global _auth_manager once an instance is bound to it:
\* the instance whose fields are users, sessions, failed_attempts and
\* lock_until.
TheManager == Some("AuthenticationManager")

\* No call or request is being answered.
Idle == last.op = "idle"

\* The call or request returns to its caller.
Return ==
    /\ ~Idle
    /\ last' = [op |-> "idle"]
    /\ UNCHANGED <<users, sessions, failed_attempts, lock_until, next_session_debug_id,
                   now, auth_required>>
    /\ Observe

(***************************************************************************)
(* The operations of the manager, each taken as one step.                  *)
(***************************************************************************)
CreateUser(username, raw_password) ==
    /\ Idle
    /\ Len(users) < MaxUsers \/ UsernameExists(users, username)
    /\ users' = create_user_users(users, username, raw_password)
    /\ last' = [op |-> "create_user", username |-> username,
                password |-> raw_password,
                ret |-> create_user_ret(users, username)]
    /\ UNCHANGED <<sessions, failed_attempts, lock_until, next_session_debug_id, now, auth_required>>
    /\ Observe

IsLocked ==
    /\ Idle
    /\ lock_until' = is_locked_lock_until(lock_until, now)
    /\ failed_attempts' = is_locked_failed_attempts(failed_attempts, lock_until, now)
    /\ last' = [op |-> "is_locked", ret |-> is_locked_ret(lock_until, now),
                was_set |-> lock_until # NoneVal]
    /\ UNCHANGED <<users, sessions, next_session_debug_id, now, auth_required>>
    /\ Observe

\* The state authenticate() leaves and the value it returns, from a given
\* state of the manager: [sessions, failed_attempts, lock_until, next, ret].
authenticate_result(us, ss, fa, lu, nid, t, username, password, password_is_hashed) ==
    IF is_locked_ret(lu, t)
    THEN [sessions |-> ss, failed_attempts |-> fa, lock_until |-> lu,
          next |-> nid, ret |-> NoneVal]
    ELSE LET fa1 == is_locked_failed_attempts(fa, lu, t)
             lu1 == is_locked_lock_until(lu, t)
             i == FindUser(us, username, HashedPassword(password, password_is_hashed))
         IN IF i # 0
            THEN [sessions |-> PutSession(ss, nid, Session(us[i], t)),
                  failed_attempts |-> 0, lock_until |-> lu1,
                  next |-> nid + 1, ret |-> Some(<<us[i], nid>>)]
            ELSE [sessions |-> ss, failed_attempts |-> fa1 + 1,
                  lock_until |-> LockUntilAfterFailure(fa1 + 1, lu1, t),
                  next |-> nid, ret |-> NoneVal]

Authenticate(username, password, mode) ==
    LET flag == IF mode = "omitted" THEN DefaultPasswordIsHashed ELSE FALSE
        r == authenticate_result(users, sessions, failed_attempts, lock_until,
                                 next_session_debug_id, now, username, password, flag)
    IN /\ Idle
       /\ r.next <= MaxSessions + 1
       /\ sessions' = r.sessions
       /\ failed_attempts' = r.failed_attempts
       /\ lock_until' = r.lock_until
       /\ next_session_debug_id' = r.next
       /\ last' = [op |-> "authenticate", username |-> username, password |-> password,
                   mode |-> mode, ret |-> r.ret,
                   rejected |-> is_locked_ret(lock_until, now)]
       /\ UNCHANGED <<users, now, auth_required>>
       /\ Observe

retrieve_user_by_session_id_ret(ss, sid, t) ==
    IF sid \notin DOMAIN ss THEN NoneVal
    ELSE IF SessionExpired(ss[sid], t) THEN NoneVal
    ELSE Some(ss[sid].user)

\* The same without session.update_access().
retrieve_user_by_session_id_sessions_untouched(ss, sid, t) ==
    IF sid \notin DOMAIN ss THEN ss
    ELSE IF SessionExpired(ss[sid], t) THEN DelSession(ss, sid)
    ELSE ss

retrieve_user_by_session_id_sessions(ss, sid, t) ==
    IF sid \notin DOMAIN ss THEN ss
    ELSE IF SessionExpired(ss[sid], t) THEN DelSession(ss, sid)
    ELSE PutSession(ss, sid, [ss[sid] EXCEPT !.last_access = t])

\* Session ids a caller can present: those issued so far, and 0, which is
\* never issued.
PresentableIds == 0..(next_session_debug_id - 1)

RetrieveUser(sid) ==
    /\ Idle
    /\ sessions' = retrieve_user_by_session_id_sessions(sessions, sid, now)
    /\ last' = [op |-> "retrieve_user_by_session_id", sid |-> sid,
                ret |-> retrieve_user_by_session_id_ret(sessions, sid, now),
                found |-> sid \in DOMAIN sessions,
                age |-> IF sid \in DOMAIN sessions
                        THEN now - sessions[sid].last_access ELSE 0]
    /\ UNCHANGED <<users, failed_attempts, lock_until, next_session_debug_id, now,
                   auth_required>>
    /\ Observe

logout_ret(ss, sid) == sid \in DOMAIN ss

logout_sessions_kept(ss, sid) == ss

logout_sessions(ss, sid) == IF sid \in DOMAIN ss THEN DelSession(ss, sid) ELSE ss

Logout(sid) ==
    /\ Idle
    /\ sessions' = logout_sessions(sessions, sid)
    /\ last' = [op |-> "logout", sid |-> sid, ret |-> logout_ret(sessions, sid)]
    /\ UNCHANGED <<users, failed_attempts, lock_until, next_session_debug_id, now,
                   auth_required>>
    /\ Observe

CleanupSessions ==
    /\ Idle
    /\ sessions' = _cleanup_sessions_result(sessions, now)
    /\ failed_attempts' = _cleanup_sessions_failed_attempts(failed_attempts)
    /\ last' = [op |-> "_cleanup_sessions", removed |-> ExpiredSessions(sessions, now)]
    /\ UNCHANGED <<users, lock_until, next_session_debug_id, now, auth_required>>
    /\ Observe

Tick ==
    /\ Idle
    /\ now < MaxTime
    /\ now' = now + 1
    /\ last' = last
    /\ UNCHANGED <<users, sessions, failed_attempts, lock_until, next_session_debug_id, auth_required>>
    /\ Observe

Init ==
    /\ users = <<>>
    /\ sessions = <<>>
    /\ failed_attempts = 0
    /\ lock_until = NoneVal
    /\ next_session_debug_id = 1
    /\ now = 0
    /\ auth_required = TRUE
    /\ last = [op |-> "idle"]
    /\ streak = NoStreak
    /\ ThreadsInit
    /\ tpl = NoRender
    /\ _auth_manager = TheManager
    /\ heap = HeapInit

Next ==
    \/ \E c \in ConfiguredUsers : CreateUser(c[1], c[2])
    \/ IsLocked
    \/ \E u \in UserNames, p \in PasswordInputs, m \in {"omitted", "raw"} :
          Authenticate(u, p, m)
    \/ \E sid \in PresentableIds : RetrieveUser(sid)
    \/ \E sid \in PresentableIds : Logout(sid)
    \/ CleanupSessions
    \/ Tick
    \/ Return

Spec == Init /\ [][Next]_vars

(***************************************************************************)
(* The module-level singleton: init_auth_manager and get_auth_manager.     *)
(***************************************************************************)
AlreadyInitialized == "Authentication manager is already initialized"
NotInitialized ==
    "Authentication manager is not initialized. Call init_auth_manager() first."

\* The (session_timeout_hours, lock_after_failed_attempts,
\* lock_after_failed_attempts_time_minutes) the program configures, and
\* other argument triples a second call may carry.
ConfiguredArgs ==
    <<session_timeout_hours, lock_after_failed_attempts,
      lock_after_failed_attempts_time_minutes>>
InitArgs == {ConfiguredArgs, <<24, 10, 30>>}

init_auth_manager_replaces(manager) == FALSE

\* init_auth_manager raises instead of constructing.
init_auth_manager_raises(manager) == manager # NoneVal

InitAuthManager(args) ==
    /\ Idle
    /\ _auth_manager = NoneVal => args = ConfiguredArgs
    /\ IF init_auth_manager_raises(_auth_manager)
       THEN /\ last' = [op |-> "init_auth_manager", args |-> args,
                        raised |-> Some(AlreadyInitialized), ret |-> NoneVal]
            /\ UNCHANGED <<users, sessions, failed_attempts, lock_until, _auth_manager>>
       ELSE /\ users' = <<>>
            /\ sessions' = <<>>
            /\ failed_attempts' = 0
            /\ lock_until' = NoneVal
            /\ _auth_manager' = TheManager
            /\ last' = [op |-> "init_auth_manager", args |-> args,
                        raised |-> NoneVal, ret |-> TheManager]
    /\ streak' = StreakAfter(streak, last', lock_until', failed_attempts', now')
    /\ UNCHANGED <<next_session_debug_id, now, auth_required, threads, tpl, heap>>

GetAuthManager ==
    /\ Idle
    /\ last' = [op |-> "get_auth_manager",
                raised |-> IF _auth_manager = NoneVal THEN Some(NotInitialized)
                           ELSE NoneVal,
                ret |-> _auth_manager]
    /\ UNCHANGED <<users, sessions, failed_attempts, lock_until, next_session_debug_id,
                   now, auth_required>>
    /\ Observe

\* auth.py as imported: no instance yet.
InitModule ==
    /\ users = <<>>
    /\ sessions = <<>>
    /\ failed_attempts = 0
    /\ lock_until = NoneVal
    /\ next_session_debug_id = 1
    /\ now = 0
    /\ auth_required = TRUE
    /\ last = [op |-> "idle"]
    /\ streak = NoStreak
    /\ ThreadsInit
    /\ tpl = NoRender
    /\ _auth_manager = NoneVal
    /\ heap = HeapInit

\* The operations of the manager are reached through get_auth_manager().
NextModule ==
    \/ \E args \in InitArgs : InitAuthManager(args)
    \/ GetAuthManager
    \/ _auth_manager # NoneVal /\ Next

SpecModule == InitModule /\ [][NextModule]_vars

(***************************************************************************)
(* web_server.py: the request handler.  A request target and a path are    *)
(* sequences of lexemes ("/", "api", "?", ...); the login "next" value and *)
(* usernames are sequences of characters.                                  *)
(***************************************************************************)
StartsWith(s, p) == Len(s) >= Len(p) /\ SubSeq(s, 1, Len(p)) = p

\* str.strip(): whitespace removed at both ends.
RECURSIVE LStrip(_)
LStrip(s) == IF s # <<>> /\ Head(s) = " " THEN LStrip(Tail(s)) ELSE s

RECURSIVE RStrip(_)
RStrip(s) == IF s # <<>> /\ s[Len(s)] = " " THEN RStrip(SubSeq(s, 1, Len(s) - 1)) ELSE s

Strip(s) == RStrip(LStrip(s))

\* urllib.parse.urlparse(self.path).path: the target up to its query.
RECURSIVE UpTo(_, _)
UpTo(s, c) == IF s = <<>> \/ Head(s) = c THEN <<>> ELSE <<Head(s)>> \o UpTo(Tail(s), c)

UrlPath(target) == UpTo(target, "?")

\* urllib.parse.quote(self.path): "/" and unreserved characters are kept,
\* every other character is percent-encoded.
QuoteLexeme(c) == IF c = "?" THEN "%3F" ELSE IF c = "=" THEN "%3D" ELSE c

Quote(s) == [i \in 1..Len(s) |-> QuoteLexeme(s[i])]

ApiPrefix == <<"/", "api", "/">>
StaticPrefix == <<"/", "static", "/">>
LoginPath == <<"/", "login">>
LogoutPath == <<"/", "logout">>
LoggedOutPath == <<"/", "logged_out_page">>
ApiLoginPath == <<"/", "api", "/", "login">>
AdminPath == <<"/", "admin">>

\* What web_views.py and web_apis.py register, and the files under static/.
ViewUrls ==
    {<<"/">>, <<>>, AdminPath, <<"/", "events">>}
        \cup (IF auth_required THEN {LoginPath, LoggedOutPath} ELSE {})
GetApiUrls == {<<"/", "api", "/", "events">>}
PostApiUrls == {<<"/", "api", "/", "events">>}
StaticFiles == {<<"/", "static", "/", "f">>}

GetTargets ==
    {<<"/">>, AdminPath, LoginPath, LoggedOutPath, LogoutPath,
     <<"/", "api", "/", "events">>, <<"/", "api", "/", "nope">>,
     <<"/", "static", "/", "f">>, <<"/", "events", "?", "name", "=", "e">>,
     <<"/", "nope">>}

\* The Cookie header as get_cookies() reads it: no auth_token cookie, an
\* auth_token with an empty value, or an auth_token carrying a token.
NoCookie == [has |-> FALSE, token |-> NoneVal]
EmptyCookie == [has |-> TRUE, token |-> NoneVal]
TokenCookie(k) == [has |-> TRUE, token |-> Some(k)]
CookieInputs == {NoCookie, EmptyCookie} \cup {TokenCookie(k) : k \in PresentableIds}

\* do_GET: whether the path is behind the session gate.
NeedsSession_pages(path) ==
    /\ ~StartsWith(path, StaticPrefix)
    /\ ~StartsWith(path, ApiPrefix)
    /\ path # LoginPath
    /\ path # LoggedOutPath

NeedsSession(path) ==
    /\ ~StartsWith(path, StaticPrefix)
    /\ path # LoginPath
    /\ path # LoggedOutPath

LoginRedirectUrl_path(target) == <<"/", "login", "?", "next", "=">> \o Quote(UrlPath(target))

LoginRedirectUrl(target) == <<"/", "login", "?", "next", "=">> \o Quote(target)

\* The handler that runs once the gate is passed, and its status.
Dispatch(path) ==
    IF StartsWith(path, ApiPrefix)
    THEN IF path \in GetApiUrls THEN [handler |-> "api_callback", status |-> 200]
         ELSE [handler |-> "none", status |-> 404]
    ELSE IF StartsWith(path, StaticPrefix)
    THEN IF path \in StaticFiles THEN [handler |-> "static_file", status |-> 200]
         ELSE [handler |-> "none", status |-> 404]
    ELSE IF StartsWith(path, <<"/">>) \/ path = <<>>
    THEN IF path \in ViewUrls THEN [handler |-> "view", status |-> 200]
         ELSE [handler |-> "none", status |-> 404]
    ELSE [handler |-> "none", status |-> 404]

\* do_GET as one step: the response and the manager state it leaves.
do_GET_result(ss, fa, lu, t, target, cookie) ==
    LET path == UrlPath(target)
        keep == [sessions |-> ss, failed_attempts |-> fa, lock_until |-> lu]
        resp(status, location, delete_cookie, handler, body) ==
            [status |-> status, location |-> location,
             delete_cookie |-> delete_cookie, handler |-> handler, body |-> body]
        \* handle_pages / handle_api_request / serve_static_file
        serve(user, st) ==
            LET dsp == Dispatch(path)
                admin == dsp.handler = "view" /\ path = AdminPath /\ auth_required
            IN [st EXCEPT
                  !.lock_until = IF admin THEN is_locked_lock_until(st.lock_until, t) ELSE @,
                  !.failed_attempts =
                      IF admin THEN is_locked_failed_attempts(st.failed_attempts,
                                                               st.lock_until, t)
                      ELSE @]
               @@ resp(dsp.status, NoneVal,
                       dsp.handler = "view" /\ user = NoneVal /\ cookie.has,
                       dsp.handler, dsp.handler)
    IN
    IF auth_required /\ path = LogoutPath
    THEN [keep EXCEPT !.sessions = IF cookie.token # NoneVal
                                    THEN logout_sessions(ss, cookie.token[1]) ELSE ss]
         @@ resp(302, Some(LoggedOutPath), TRUE, "none", "")
    ELSE IF auth_required /\ NeedsSession(path)
    THEN LET user == IF cookie.token # NoneVal
                     THEN retrieve_user_by_session_id_ret(ss, cookie.token[1], t)
                     ELSE NoneVal
             ss1 == IF cookie.token # NoneVal
                    THEN retrieve_user_by_session_id_sessions(ss, cookie.token[1], t)
                    ELSE ss
             st == [keep EXCEPT !.sessions = ss1]
         IN IF user = NoneVal
            THEN IF StartsWith(path, ApiPrefix)
                 THEN st @@ resp(401, NoneVal, FALSE, "none", "Unauthorized")
                 ELSE st @@ resp(302, Some(LoginRedirectUrl(target)), FALSE, "none", "")
            ELSE serve(user, st)
    ELSE serve(NoneVal, keep)

Get(target, cookie) ==
    LET r == do_GET_result(sessions, failed_attempts, lock_until, now, target, cookie)
    IN /\ Idle
       /\ sessions' = r.sessions
       /\ failed_attempts' = r.failed_attempts
       /\ lock_until' = r.lock_until
       /\ last' = [op |-> "GET", target |-> target, cookie |-> cookie,
                   status |-> r.status, location |-> r.location,
                   delete_cookie |-> r.delete_cookie, handler |-> r.handler,
                   body |-> r.body]
       /\ UNCHANGED <<users, next_session_debug_id, now, auth_required>>
       /\ Observe

(***************************************************************************)
(* handle_login_post                                                       *)
(***************************************************************************)
NextInputs ==
    {NoneVal, Some(<<>>), Some(<<"/", "a">>), Some(<<"/", "/", "e">>),
     Some(<<"h", ":", "/", "/", "e">>), Some(<<" ", "/", "a">>)}

LoginBodies ==
    {[json_ok |-> FALSE, username |-> <<>>, password |-> "", next |-> NoneVal]}
      \cup [json_ok : {TRUE}, username : UserNameInputs \ {<<"b">>},
            password : {""} \cup (PasswordInputs \ {"y"}), next : NextInputs]

\* The bodies that suffice to open sessions and to reach the other POST paths.
SessionBodies ==
    {b \in LoginBodies :
        /\ b.next = NoneVal
        /\ \/ b.username = <<>> /\ b.password = ""
           \/ b.username = <<"a">> /\ b.password \in {"x", _hash_password("x")}}

\* data.get('next', '/').strip(), forced to "/" unless it starts with "/".
SanitizeNext(next) ==
    LET n == Strip(IF next = NoneVal THEN <<"/">> ELSE next[1])
    IN IF n # <<>> /\ ~StartsWith(n, <<"/">>) THEN <<"/">> ELSE n

LoginRedirect_root(next_url) == <<"/">>

LoginRedirect(next_url) == IF next_url # <<>> THEN next_url ELSE <<"/">>

LoginInputMissing(username, password) == username = <<>> \/ password = ""

LoginFailureStatus_unauthorized(locked) == 401

LoginFailureStatus(locked) == IF locked THEN 423 ELSE 401

handle_login_post_result(us, ss, fa, lu, nid, t, body) ==
    LET keep == [sessions |-> ss, failed_attempts |-> fa, lock_until |-> lu, next |-> nid]
        resp(status, set_cookie, redirect) ==
            [status |-> status, set_cookie |-> set_cookie, redirect |-> redirect]
    IN
    IF ~body.json_ok THEN keep @@ resp(400, NoneVal, NoneVal)
    ELSE
    LET username == Strip(body.username)
        next_url == SanitizeNext(body.next)
    IN
    IF LoginInputMissing(username, body.password) THEN keep @@ resp(400, NoneVal, NoneVal)
    ELSE IF is_locked_ret(lu, t) THEN keep @@ resp(423, NoneVal, NoneVal)
    ELSE
    LET a == authenticate_result(us, ss, fa, lu, nid, t, username, body.password,
                                 DefaultPasswordIsHashed)
        st == [sessions |-> a.sessions, failed_attempts |-> a.failed_attempts,
               lock_until |-> a.lock_until, next |-> a.next]
    IN
    IF a.ret # NoneVal
    THEN st @@ resp(200, Some(a.ret[1][2]), Some(LoginRedirect(next_url)))
    ELSE [st EXCEPT
            !.lock_until = is_locked_lock_until(a.lock_until, t),
            !.failed_attempts = is_locked_failed_attempts(a.failed_attempts,
                                                           a.lock_until, t)]
         @@ resp(LoginFailureStatus(is_locked_ret(a.lock_until, t)), NoneVal, NoneVal)

PostTargets == {ApiLoginPath, LoginPath, <<"/", "api", "/", "events">>,
                <<"/", "api", "/", "nope">>}

\* do_POST: if path == "/api/login"
IsLoginEndpoint_alias(path) == path \in {ApiLoginPath, LoginPath}

IsLoginEndpoint(path) == path = ApiLoginPath

\* do_POST: the login endpoint, a registered POST API, or 404.
Post(target, body) ==
    LET path == UrlPath(target) IN
    /\ Idle
    /\ next_session_debug_id <= MaxSessions
    /\ IF IsLoginEndpoint(path)
       THEN LET r == handle_login_post_result(users, sessions, failed_attempts,
                         lock_until, next_session_debug_id, now, body)
            IN /\ sessions' = r.sessions
               /\ failed_attempts' = r.failed_attempts
               /\ lock_until' = r.lock_until
               /\ next_session_debug_id' = r.next
               /\ last' = [op |-> "POST", target |-> target, body |-> body,
                           status |-> r.status, set_cookie |-> r.set_cookie,
                           cookie_attrs |-> IF r.set_cookie # NoneVal
                                            THEN <<"Path=/", "HttpOnly">> ELSE <<>>,
                           redirect |-> r.redirect, handler |-> "login",
                           locked_before |-> is_locked_ret(lock_until, now)]
       ELSE /\ \/ path = LoginPath
               \/ body.next = NoneVal /\ body.username = <<>> /\ body.password = ""
            /\ UNCHANGED <<sessions, failed_attempts, lock_until, next_session_debug_id>>
            /\ last' = [op |-> "POST", target |-> target, body |-> body,
                        status |-> IF path \in PostApiUrls
                                   THEN (IF body.json_ok THEN 200 ELSE 400)
                                   ELSE 404,
                        set_cookie |-> NoneVal, cookie_attrs |-> <<>>,
                        redirect |-> NoneVal,
                        locked_before |-> is_locked_ret(lock_until, now),
                        handler |-> IF path \in PostApiUrls /\ body.json_ok
                                    THEN "api_callback" ELSE "none"]
    /\ UNCHANGED <<users, now, auth_required>>
    /\ Observe

(***************************************************************************)
(* The server as engine.py starts it: the manager is built, the users of   *)
(* the configuration are created, then requests are served while the timer *)
(* thread runs the sweep.                                                  *)
(***************************************************************************)
RECURSIVE CreateUsers(_, _)
CreateUsers(us, cfg) ==
    IF cfg = <<>> THEN us
    ELSE CreateUsers(create_user_users(us, Head(cfg)[1], Head(cfg)[2]), Tail(cfg))

UserConfigs ==
    UNION {[1..n -> ConfiguredUsers] : n \in 0..MaxUsers}

InitWeb ==
    /\ users \in {CreateUsers(<<>>, cfg) : cfg \in UserConfigs}
    /\ sessions = <<>>
    /\ failed_attempts = 0
    /\ lock_until = NoneVal
    /\ next_session_debug_id = 1
    /\ now = 0
    /\ auth_required \in BOOLEAN
    /\ last = [op |-> "idle"]
    /\ streak = NoStreak
    /\ ThreadsInit
    /\ tpl = NoRender
    /\ _auth_manager = TheManager
    /\ heap = HeapInit

\* The server under every GET, with the POSTs that open sessions.
NextWeb ==
    \/ \E target \in GetTargets, cookie \in CookieInputs : Get(target, cookie)
    \/ \E target \in PostTargets, body \in SessionBodies : Post(target, body)
    \/ CleanupSessions
    \/ Tick
    \/ Return

SpecWeb == InitWeb /\ [][NextWeb]_vars

\* The server under every login POST, with the GETs that change what a login
\* depends on (the admin view calls is_locked, /logout removes a session).
NextLogin ==
    \/ \E target \in {AdminPath, LogoutPath}, cookie \in CookieInputs : Get(target, cookie)
    \/ \E target \in {ApiLoginPath, LoginPath}, body \in LoginBodies : Post(target, body)
    \/ CleanupSessions
    \/ Tick
    \/ Return

SpecLogin == InitWeb /\ [][NextLogin]_vars

(***************************************************************************)
(* handle_api_request and handle_api_post_request.  An API is the urls it  *)
(* was registered for and its callback; what the callback does with its    *)
(* arguments is an input of the request: it returns (data, status) or      *)
(* raises.  A JSON text is a sequence of lexemes.                          *)
(***************************************************************************)
API(urls, callback) == [urls |-> urls, callback |-> callback]

EventsApiPath == <<"/", "api", "/", "events">>
StatsApiPath == <<"/", "api", "/", "stats">>

\* The registration of web_apis.py, alone and after a second API that
\* serves /api/events too.
ApiLists ==
    { <<API({EventsApiPath}, "events_api")>>,
      <<API({EventsApiPath, StatsApiPath}, "stats_api"), API({EventsApiPath}, "events_api")>> }

CallbackOutcomes ==
    {[raises |-> FALSE, data |-> "[]", status |-> st] :
        st \in {NoneVal, Some(0), Some(400)}}
      \cup {[raises |-> TRUE, data |-> "", status |-> NoneVal]}

\* status or 200
StatusOr200(status) == IF status = NoneVal \/ status[1] = 0 THEN 200 ELSE status[1]

\* json.dumps({"data": data})
Envelope_bare(data) == <<data>>

Envelope(data) == <<"{", "\"data\"", ":", data, "}">>

\* urlparse(self.path).query: the target after its first "?".
RECURSIVE QueryOf(_)
QueryOf(target) ==
    IF target = <<>> THEN <<>>
    ELSE IF Head(target) = "?" THEN Tail(target)
    ELSE QueryOf(Tail(target))

\* urllib.parse.parse_qsl on name=value fields joined by "&".
RECURSIVE parse_qsl(_)
parse_qsl(query) ==
    IF Len(query) >= 3 /\ query[2] = "="
    THEN <<<<query[1], query[3]>>>> \o parse_qsl(SubSeq(query, 5, Len(query)))
    ELSE <<>>

\* dict(pairs): the last value given to each name.
DictOf(pairs) ==
    [name \in {pairs[i][1] : i \in 1..Len(pairs)} |->
        pairs[CHOOSE i \in 1..Len(pairs) :
                 /\ pairs[i][1] = name
                 /\ \A j \in 1..Len(pairs) : pairs[j][1] = name => j <= i][2]]

QueryParams(target) == DictOf(parse_qsl(QueryOf(target)))

\* for api in apis: if path in api.urls -- the first such API, 0 for none.
FirstApi(apis, path) ==
    LET hits == {i \in 1..Len(apis) : path \in apis[i].urls}
    IN IF hits = {} THEN 0 ELSE CHOOSE i \in hits : \A m \in hits : i <= m

\* A payload json.dumps raises TypeError for (a set, an object), and the
\* payloads it serializes.
Unserializable == "{1, 2}"

Serializable(data) == data # Unserializable

\* What the handler wrote to the connection: lines holds the status lines in
\* the order sent; status, cors and body are what the client reads, the
\* first status line, its headers and all that follows them.
ApiResponse(status, body, cors, calls) ==
    [status |-> status, body |-> body, cors |-> cors, calls |-> calls,
     lines |-> <<status>>]

\* send_response(status or 200) and the headers are on the wire when
\* json.dumps raises inside wfile.write(...); the except clause then calls
\* send_error(500, "Internal Server Error"), whose response follows them.
AfterDumpsRaised(status, call) ==
    [ApiResponse(status, <<"HTTP/1.0 500", "Internal Server Error">>, TRUE, <<call>>)
        EXCEPT !.lines = <<status, 500>>]

handle_api_request(get_apis, path, query_params, outcome) ==
    LET i == FirstApi(get_apis, path) IN
    IF i = 0 THEN ApiResponse(404, <<"API endpoint not found">>, FALSE, <<>>)
    ELSE LET call == [callback |-> get_apis[i].callback, args |-> <<query_params>>]
         IN IF outcome.raises
            THEN ApiResponse(500, <<"Internal Server Error">>, FALSE, <<call>>)
            ELSE IF ~Serializable(outcome.data)
            THEN AfterDumpsRaised(StatusOr200(outcome.status), call)
            ELSE ApiResponse(StatusOr200(outcome.status), Envelope(outcome.data), TRUE,
                             <<call>>)

\* do_GET on a path under /api/: the session gate, then handle_api_request.
ApiGet(target, cookie, get_apis, outcome) ==
    LET path == UrlPath(target)
        r == do_GET_result(sessions, failed_attempts, lock_until, now, target, cookie)
        a == IF r.status = 401 THEN ApiResponse(401, <<"Unauthorized">>, FALSE, <<>>)
             ELSE handle_api_request(get_apis, path, QueryParams(target), outcome)
    IN /\ Idle
       /\ StartsWith(path, ApiPrefix)
       /\ sessions' = r.sessions
       /\ failed_attempts' = r.failed_attempts
       /\ lock_until' = r.lock_until
       /\ last' = [op |-> "api_get", target |-> target, cookie |-> cookie,
                   apis |-> get_apis, outcome |-> outcome,
                   authorized |-> r.status # 401,
                   status |-> a.status, body |-> a.body, cors |-> a.cors,
                   calls |-> a.calls, lines |-> a.lines]
       /\ UNCHANGED <<users, next_session_debug_id, now, auth_required>>
       /\ Observe

\* The request bodies: bytes that are UTF-8 or not, and their text.
PostBody(utf8, text) == [utf8 |-> utf8, text |-> text]

\* json.loads on the texts used here; the other texts raise JSONDecodeError.
JsonValues ==
    ("{}" :> [kind |-> "object", events |-> NoneVal])
        @@ ("{\"events\": []}" :> [kind |-> "object", events |-> Some(<<>>)])

PostBodies ==
    {PostBody(TRUE, text) : text \in DOMAIN JsonValues \cup {"{", ""}}
        \cup {PostBody(FALSE, "\\xff")}

HeaderMaps == {[n \in {"X-API-Key"} |-> "k"]}

handle_api_post_request(post_apis, path, body, headers, outcome) ==
    LET i == FirstApi(post_apis, path) IN
    IF i = 0 THEN ApiResponse(404, <<"API POST endpoint not found">>, FALSE, <<>>)
    ELSE IF ~body.utf8
    THEN ApiResponse(500, <<"Internal Server Error">>, FALSE, <<>>)
    ELSE IF body.text \notin DOMAIN JsonValues
    THEN ApiResponse(400, <<"{", "\"error\"", ":", "\"Invalid JSON format\"", "}">>,
                     FALSE, <<>>)
    ELSE LET call == [callback |-> post_apis[i].callback,
                      args |-> <<JsonValues[body.text], headers>>]
         IN IF outcome.raises
            THEN ApiResponse(500, <<"Internal Server Error">>, FALSE, <<call>>)
            ELSE IF ~Serializable(outcome.data)
            THEN AfterDumpsRaised(StatusOr200(outcome.status), call)
            ELSE ApiResponse(StatusOr200(outcome.status), <<outcome.data>>, TRUE, <<call>>)

ApiPostTargets == {EventsApiPath, <<"/", "api", "/", "nope">>, <<"/", "events">>}

PostNeedsSession_as_get(path) == NeedsSession(path)

\* do_POST reads no cookie and asks the manager nothing: no path of a POST
\* is behind the session gate.
PostNeedsSession(path) == FALSE

\* do_POST on a path other than /api/login, from a client that sends cookie.
ApiPost(target, cookie, body, headers, post_apis, outcome) ==
    LET path == UrlPath(target)
        user == IF cookie.token = NoneVal THEN NoneVal
                ELSE retrieve_user_by_session_id_ret(sessions, cookie.token[1], now)
        a == IF auth_required /\ PostNeedsSession(path) /\ user = NoneVal
             THEN ApiResponse(401, <<"Unauthorized">>, FALSE, <<>>)
             ELSE IF StartsWith(path, ApiPrefix)
             THEN handle_api_post_request(post_apis, path, body, headers, outcome)
             ELSE ApiResponse(404, <<"Endpoint not found">>, FALSE, <<>>)
    IN /\ Idle
       /\ path # ApiLoginPath
       /\ last' = [op |-> "api_post", target |-> target, cookie |-> cookie,
                   request |-> body,
                   headers |-> headers, apis |-> post_apis, outcome |-> outcome,
                   status |-> a.status, body |-> a.body, cors |-> a.cors,
                   calls |-> a.calls, lines |-> a.lines]
       /\ UNCHANGED <<users, sessions, failed_attempts, lock_until,
                      next_session_debug_id, now, auth_required>>
       /\ Observe

ApiGetTargets ==
    {EventsApiPath, EventsApiPath \o <<"?", "name", "=", "e">>,
     EventsApiPath \o <<"?", "name", "=", "e", "&", "name", "=", "f">>,
     StatsApiPath, <<"/", "api", "/", "nope">>}

\* The server under the API requests, with the logins that open sessions.
NextApi ==
    \/ \E target \in ApiGetTargets, cookie \in CookieInputs, get_apis \in ApiLists,
          outcome \in CallbackOutcomes : ApiGet(target, cookie, get_apis, outcome)
    \/ \E target \in ApiPostTargets, cookie \in CookieInputs, body \in PostBodies,
          headers \in HeaderMaps, post_apis \in ApiLists, outcome \in CallbackOutcomes :
          ApiPost(target, cookie, body, headers, post_apis, outcome)
    \/ \E body \in SessionBodies : Post(ApiLoginPath, body)
    \/ Tick
    \/ Return

SpecApi == InitWeb /\ [][NextApi]_vars

(***************************************************************************)
(* The threads.  WebServer.start serves with a ThreadingTCPServer, one     *)
(* thread per request, and timer.register_timer runs _cleanup_sessions on  *)
(* a daemon thread; auth.py takes no lock, so the statements of the        *)
(* manager's methods interleave.  One step below is one read or one write  *)
(* of the manager's shared fields.                                         *)
(***************************************************************************)
ManagerVars == <<sessions, failed_attempts, lock_until, next_session_debug_id>>
Surroundings == <<users, now, auth_required, last, streak, start, tpl, _auth_manager, heap>>

\* The Session object a thread reached through the map: it outlives its
\* deletion from the map for as long as a thread holds it.
SessionObject(sid) == IF sid \in DOMAIN sessions THEN sessions[sid] ELSE detached[sid]

\* The thread goes on to the statement at label with the locals l.
Continue(t, label, l) ==
    /\ pc' = [pc EXCEPT ![t] = label]
    /\ loc' = [loc EXCEPT ![t] = l]
    /\ UNCHANGED res

\* The thread's request is over and its frame is dropped: status is the
\* response sent, 0 when the handler raised before sending any (the
\* connection is closed unanswered).
Answer(t, status) ==
    /\ pc' = [pc EXCEPT ![t] = "idle"]
    /\ loc' = [loc EXCEPT ![t] = [NoLocals EXCEPT !.op = loc[t].op,
                                     !.sid = IF loc[t].op = "login" THEN 0 ELSE loc[t].sid,
                                     !.username = loc[t].username,
                                     !.password = loc[t].password]]
    /\ res' = [res EXCEPT ![t] = Some(status)]

\* No thread is inside a request or a sweep.
Quiet == \A t \in Threads : pc[t] = "idle"

\* A thread takes one request (or one sweep) between two quiet moments, and
\* at most MaxConcurrent threads do; the request threads are taken in order.
Fresh(t) == pc[t] = "idle" /\ res[t] = NoneVal

MayStart(t) ==
    /\ Fresh(t)
    /\ Cardinality({u \in Threads : ~Fresh(u)}) < MaxConcurrent
    /\ \A u \in Workers : u < t => ~Fresh(u)

\* Whether a thread is between fetching the Session object of sid and its
\* last use of it.
Held(sid) == \E t \in Workers : pc[t] \in {"r_cmp", "r_touch"} /\ loc[t].sid = sid

\* del self.sessions[sid], the object staying reachable by its holders.
DeleteEntry(sid) ==
    /\ detached' = IF Held(sid) THEN PutSession(detached, sid, sessions[sid])
                   ELSE detached
    /\ sessions' = DelSession(sessions, sid)

(***************************************************************************)
(* POST /api/login, handle_login_post with a body that has a username and  *)
(* a password: is_locked(), authenticate(), is_locked().                   *)
(***************************************************************************)
StartLogin(t, username, password) ==
    /\ MayStart(t)
    /\ next_session_debug_id <= MaxSessions
    /\ Continue(t, "lock_none", [NoLocals EXCEPT !.op = "login", !.username = username,
                                                  !.password = password, !.call = 1])
    /\ UNCHANGED <<ManagerVars, Surroundings, detached>>

\* What follows a return of is_locked(): call 1 is the handler's check before
\* authenticate, call 2 the check inside authenticate, call 3 the handler's
\* check after a failed authenticate.
AfterIsLocked(t, locked) ==
    CASE loc[t].call = 1 ->
           IF locked THEN Answer(t, 423)
           ELSE Continue(t, "lock_none", [loc[t] EXCEPT !.call = 2])
      [] loc[t].call = 2 ->
           IF locked THEN Continue(t, "lock_none", [loc[t] EXCEPT !.call = 3])
           ELSE Continue(t, "match", loc[t])
      [] OTHER -> Answer(t, LoginFailureStatus(locked))

\* if self.lock_until is None: return False
LockNone(t) ==
    /\ pc[t] = "lock_none"
    /\ IF lock_until = NoneVal
       THEN AfterIsLocked(t, FALSE)
       ELSE Continue(t, "lock_cmp", loc[t])
    /\ UNCHANGED <<ManagerVars, Surroundings, detached>>

\* if datetime.now() >= self.lock_until: the field is read again, and the
\* comparison with None raises TypeError, which the handler answers with 503.
LockCompare(t) ==
    /\ pc[t] = "lock_cmp"
    /\ IF lock_until = NoneVal THEN Answer(t, 503)
       ELSE IF LockExpired(lock_until, now) THEN Continue(t, "lock_clear", loc[t])
       ELSE AfterIsLocked(t, TRUE)
    /\ UNCHANGED <<ManagerVars, Surroundings, detached>>

\* self.lock_until = None
LockClear(t) ==
    /\ pc[t] = "lock_clear"
    /\ lock_until' = NoneVal
    /\ Continue(t, "lock_reset", loc[t])
    /\ UNCHANGED <<sessions, failed_attempts, next_session_debug_id, Surroundings, detached>>

\* self.failed_attempts = 0; return False
LockReset(t) ==
    /\ pc[t] = "lock_reset"
    /\ failed_attempts' = 0
    /\ AfterIsLocked(t, FALSE)
    /\ UNCHANGED <<sessions, lock_until, next_session_debug_id, Surroundings, detached>>

\* for user in self.users: the list is not written after startup.
Match(t) ==
    /\ pc[t] = "match"
    /\ LET i == FindUser(users, loc[t].username,
                         HashedPassword(loc[t].password, DefaultPasswordIsHashed))
       IN IF i # 0
          THEN Continue(t, "insert", [loc[t] EXCEPT !.tmp = i])
          ELSE Continue(t, "fa_read", loc[t])
    /\ UNCHANGED <<ManagerVars, Surroundings, detached>>

\* session = Session(user, session_id); self.sessions[session_id] = session
Insert(t) ==
    /\ pc[t] = "insert"
    /\ sessions' = PutSession(sessions, _generate_session_id,
                              Session(users[loc[t].tmp], now))
    /\ next_session_debug_id' = next_session_debug_id + 1
    /\ Continue(t, "fa_zero", [loc[t] EXCEPT !.sid = _generate_session_id])
    /\ UNCHANGED <<failed_attempts, lock_until, Surroundings, detached>>

\* self.failed_attempts = 0; return user, session_id; the handler sends 200.
ResetOnSuccess(t) ==
    /\ pc[t] = "fa_zero"
    /\ failed_attempts' = 0
    /\ Answer(t, 200)
    /\ UNCHANGED <<sessions, lock_until, next_session_debug_id, Surroundings, detached>>

\* self.failed_attempts += 1, the load of the field
FailedRead(t) ==
    /\ pc[t] = "fa_read"
    /\ Continue(t, "fa_write", [loc[t] EXCEPT !.tmp = failed_attempts])
    /\ UNCHANGED <<ManagerVars, Surroundings, detached>>

\* self.failed_attempts += 1, the store of the sum
FailedWrite(t) ==
    /\ pc[t] = "fa_write"
    /\ failed_attempts' = loc[t].tmp + 1
    /\ Continue(t, "fa_check", [loc[t] EXCEPT !.tmp = 0])
    /\ UNCHANGED <<sessions, lock_until, next_session_debug_id, Surroundings, detached>>

\* if self.failed_attempts >= self.lock_after_failed_attempts
FailedCheck(t) ==
    /\ pc[t] = "fa_check"
    /\ IF ShouldLock(failed_attempts)
       THEN Continue(t, "lock_set", loc[t])
       ELSE Continue(t, "lock_none", [loc[t] EXCEPT !.call = 3])
    /\ UNCHANGED <<ManagerVars, Surroundings, detached>>

\* self.lock_until = datetime.now() + timedelta(minutes=...); return None
LockSet(t) ==
    /\ pc[t] = "lock_set"
    /\ lock_until' = Some(now + lock_after_failed_attempts_time_minutes)
    /\ Continue(t, "lock_none", [loc[t] EXCEPT !.call = 3])
    /\ UNCHANGED <<sessions, failed_attempts, next_session_debug_id, Surroundings, detached>>

(***************************************************************************)
(* GET / with an auth_token cookie: do_GET calls                           *)
(* retrieve_user_by_session_id inside a try whose except leaves user None. *)
(***************************************************************************)
StartPage(t, sid) ==
    /\ MayStart(t)
    /\ Continue(t, "r_in", [NoLocals EXCEPT !.op = "page", !.sid = sid])
    /\ UNCHANGED <<ManagerVars, Surroundings, detached>>

\* if session_id not in self.sessions: return None
RetrieveIn(t) ==
    /\ pc[t] = "r_in"
    /\ IF loc[t].sid \in DOMAIN sessions
       THEN Continue(t, "r_get", loc[t])
       ELSE Answer(t, 302)
    /\ UNCHANGED <<ManagerVars, Surroundings, detached>>

\* session = self.sessions[session_id]: KeyError when the entry has gone.
RetrieveGet(t) ==
    /\ pc[t] = "r_get"
    /\ IF loc[t].sid \in DOMAIN sessions
       THEN Continue(t, "r_cmp", loc[t])
       ELSE Answer(t, 302)
    /\ UNCHANGED <<ManagerVars, Surroundings, detached>>

\* if datetime.now() - session.last_access > timedelta(hours=...)
RetrieveCompare(t) ==
    /\ pc[t] = "r_cmp"
    /\ IF SessionExpired(SessionObject(loc[t].sid), now)
       THEN Continue(t, "r_del", loc[t])
       ELSE Continue(t, "r_touch", loc[t])
    /\ UNCHANGED <<ManagerVars, Surroundings, detached>>

\* del self.sessions[session_id]; return None
RetrieveDelete(t) ==
    /\ pc[t] = "r_del"
    /\ IF loc[t].sid \in DOMAIN sessions
       THEN DeleteEntry(loc[t].sid)
       ELSE UNCHANGED <<sessions, detached>>
    /\ Answer(t, 302)
    /\ UNCHANGED <<failed_attempts, lock_until, next_session_debug_id, Surroundings>>

\* session.update_access(); return session.user; the page is served.
RetrieveTouch(t) ==
    /\ pc[t] = "r_touch"
    /\ LET sid == loc[t].sid
           s == [SessionObject(sid) EXCEPT !.last_access = now]
       IN IF sid \in DOMAIN sessions
          THEN sessions' = PutSession(sessions, sid, s) /\ UNCHANGED detached
          ELSE detached' = PutSession(detached, sid, s) /\ UNCHANGED sessions
    /\ Answer(t, 200)
    /\ UNCHANGED <<failed_attempts, lock_until, next_session_debug_id, Surroundings>>

(***************************************************************************)
(* GET /logout with an auth_token cookie: do_GET calls logout outside any  *)
(* try and then sends the 302.                                             *)
(***************************************************************************)
StartLogout(t, sid) ==
    /\ MayStart(t)
    /\ Continue(t, "l_in", [NoLocals EXCEPT !.op = "logout", !.sid = sid])
    /\ UNCHANGED <<ManagerVars, Surroundings, detached>>

\* if session_id in self.sessions
LogoutIn(t) ==
    /\ pc[t] = "l_in"
    /\ IF loc[t].sid \in DOMAIN sessions
       THEN Continue(t, "l_get", loc[t])
       ELSE Answer(t, 302)
    /\ UNCHANGED <<ManagerVars, Surroundings, detached>>

\* username = self.sessions[session_id].user.username
LogoutGet(t) ==
    /\ pc[t] = "l_get"
    /\ IF loc[t].sid \in DOMAIN sessions
       THEN Continue(t, "l_del", loc[t])
       ELSE Answer(t, 0)
    /\ UNCHANGED <<ManagerVars, Surroundings, detached>>

\* del self.sessions[session_id]; return True
LogoutDelete(t) ==
    /\ pc[t] = "l_del"
    /\ IF loc[t].sid \in DOMAIN sessions
       THEN DeleteEntry(loc[t].sid) /\ Answer(t, 302)
       ELSE UNCHANGED <<sessions, detached>> /\ Answer(t, 0)
    /\ UNCHANGED <<failed_attempts, lock_until, next_session_debug_id, Surroundings>>

(***************************************************************************)
(* _cleanup_sessions on the timer thread.  Its result is 1 when it returns *)
(* and 0 when it raises (timer_loop catches and prints "Timer error").     *)
(***************************************************************************)
RECURSIVE SortedKeys(_)
SortedKeys(S) ==
    IF S = {} THEN <<>>
    ELSE LET m == CHOOSE k \in S : \A j \in S : k <= j
         IN <<m>> \o SortedKeys(S \ {m})

\* now = datetime.now(); expired_sessions = []
StartSweep ==
    /\ MayStart(SweepThread)
    /\ Continue(SweepThread, "s_reset", [NoLocals EXCEPT !.op = "sweep", !.t0 = now])
    /\ UNCHANGED <<ManagerVars, Surroundings, detached>>

\* self.failed_attempts = 0
SweepReset ==
    /\ pc[SweepThread] = "s_reset"
    /\ failed_attempts' = 0
    /\ Continue(SweepThread, "s_begin", loc[SweepThread])
    /\ UNCHANGED <<sessions, lock_until, next_session_debug_id, Surroundings, detached>>

\* for session_id, session in self.sessions.items(): the iterator is made
\* and remembers the size of the dict.
SweepBegin ==
    /\ pc[SweepThread] = "s_begin"
    /\ Continue(SweepThread, "s_iter",
                [loc[SweepThread] EXCEPT !.size0 = Cardinality(DOMAIN sessions),
                                         !.pos = 0])
    /\ UNCHANGED <<ManagerVars, Surroundings, detached>>

\* One turn of the first loop: the iterator raises RuntimeError when the
\* dict changed size, stops after the last entry, and otherwise yields the
\* next entry, which is appended when it has expired.
SweepIterate ==
    LET l == loc[SweepThread]
        keys == SortedKeys(DOMAIN sessions)
    IN
    /\ pc[SweepThread] = "s_iter"
    /\ IF Cardinality(DOMAIN sessions) # l.size0 THEN Answer(SweepThread, 0)
       ELSE IF l.pos = l.size0 THEN Continue(SweepThread, "s_pick", l)
       ELSE Continue(SweepThread, "s_iter",
                     [l EXCEPT !.pos = l.pos + 1,
                               !.expired =
                                   IF SessionExpired(sessions[keys[l.pos + 1]], l.t0)
                                   THEN Append(l.expired, keys[l.pos + 1])
                                   ELSE l.expired])
    /\ UNCHANGED <<ManagerVars, Surroundings, detached>>

\* for session_id in expired_sessions
SweepPick ==
    /\ pc[SweepThread] = "s_pick"
    /\ IF loc[SweepThread].expired = <<>>
       THEN Answer(SweepThread, 1)
       ELSE Continue(SweepThread, "s_get", loc[SweepThread])
    /\ UNCHANGED <<ManagerVars, Surroundings, detached>>

\* username = self.sessions[session_id].user.username
SweepGet ==
    /\ pc[SweepThread] = "s_get"
    /\ IF Head(loc[SweepThread].expired) \in DOMAIN sessions
       THEN Continue(SweepThread, "s_del", loc[SweepThread])
       ELSE Answer(SweepThread, 0)
    /\ UNCHANGED <<ManagerVars, Surroundings, detached>>

\* del self.sessions[session_id]
SweepDelete ==
    LET sid == Head(loc[SweepThread].expired) IN
    /\ pc[SweepThread] = "s_del"
    /\ IF sid \in DOMAIN sessions
       THEN /\ DeleteEntry(sid)
            /\ Continue(SweepThread, "s_pick", [loc[SweepThread] EXCEPT !.expired = Tail(@)])
       ELSE /\ Answer(SweepThread, 0)
            /\ UNCHANGED <<sessions, detached>>
    /\ UNCHANGED <<failed_attempts, lock_until, next_session_debug_id, Surroundings>>

(***************************************************************************)
(* Quiet moments.  The clock of the model advances between requests only,  *)
(* and the history variable start is refreshed when every thread is idle.  *)
(***************************************************************************)
Settle ==
    /\ Quiet
    /\ \E t \in Threads : res[t] # NoneVal
    /\ res' = [t \in Threads |-> NoneVal]
    /\ loc' = [t \in Threads |-> NoLocals]
    /\ detached' = <<>>
    /\ start' = [sessions |-> sessions, failed_attempts |-> failed_attempts,
                 lock_until |-> lock_until, next |-> next_session_debug_id]
    /\ UNCHANGED <<ManagerVars, users, now, auth_required, last, streak, pc, tpl,
                   _auth_manager, heap>>

TickQuiet ==
    /\ \A t \in Threads : Fresh(t)
    /\ now < MaxTime
    /\ now' = now + 1
    /\ UNCHANGED <<ManagerVars, users, auth_required, last, streak, threads, tpl,
                   _auth_manager, heap>>

\* The server as engine.py starts it with authentication enabled and the
\* configured user.
InitConc ==
    /\ InitWeb
    /\ auth_required
    /\ users = CreateUsers(<<>>, << <<(<<"a">>), "x">> >>)

NextConc ==
    \/ \E t \in Workers, p \in {"x", _hash_password("x")} : StartLogin(t, <<"a">>, p)
    \/ \E t \in Workers : LockNone(t)
    \/ \E t \in Workers : LockCompare(t)
    \/ \E t \in Workers : LockClear(t)
    \/ \E t \in Workers : LockReset(t)
    \/ \E t \in Workers : Match(t)
    \/ \E t \in Workers : Insert(t)
    \/ \E t \in Workers : ResetOnSuccess(t)
    \/ \E t \in Workers : FailedRead(t)
    \/ \E t \in Workers : FailedWrite(t)
    \/ \E t \in Workers : FailedCheck(t)
    \/ \E t \in Workers : LockSet(t)
    \/ \E t \in Workers, sid \in DOMAIN sessions : StartPage(t, sid)
    \/ \E t \in Workers : RetrieveIn(t)
    \/ \E t \in Workers : RetrieveGet(t)
    \/ \E t \in Workers : RetrieveCompare(t)
    \/ \E t \in Workers : RetrieveDelete(t)
    \/ \E t \in Workers : RetrieveTouch(t)
    \/ \E t \in Workers, sid \in DOMAIN sessions : StartLogout(t, sid)
    \/ \E t \in Workers : LogoutIn(t)
    \/ \E t \in Workers : LogoutGet(t)
    \/ \E t \in Workers : LogoutDelete(t)
    \/ StartSweep
    \/ SweepReset
    \/ SweepBegin
    \/ SweepIterate
    \/ SweepPick
    \/ SweepGet
    \/ SweepDelete
    \/ Settle
    \/ TickQuiet

SpecConc == InitConc /\ [][NextConc]_vars

(***************************************************************************)
(* The sweep among logins and logouts that never stop.  register_timer     *)
(* runs _cleanup_sessions again after every interval, whether the last run *)
(* returned or raised, the clock goes on, and a thread that is inside a    *)
(* request or a sweep goes on to its next statement; whether a request     *)
(* arrives is left open.                                                   *)
(***************************************************************************)
\* secrets.token_urlsafe(32) gives a token that no session has: at a quiet
\* moment the numbers above those of the sessions in the store name the
\* tokens to come, so that logins can go on for ever.
ReuseIds ==
    LET least == IF sessions = <<>> THEN 1
                 ELSE 1 + CHOOSE k \in DOMAIN sessions : \A j \in DOMAIN sessions : j <= k
    IN /\ \A t \in Threads : Fresh(t)
       /\ least < next_session_debug_id
       /\ next_session_debug_id' = least
       /\ UNCHANGED <<users, sessions, failed_attempts, lock_until, now, auth_required,
                      last, streak, threads, tpl, _auth_manager, heap>>

\* The statements of a login with the right password and of a logout.
WorkerStep ==
    \E t \in Workers :
        \/ LockNone(t)
        \/ Match(t)
        \/ Insert(t)
        \/ ResetOnSuccess(t)
        \/ LogoutIn(t)
        \/ LogoutGet(t)
        \/ LogoutDelete(t)

WorkerStart ==
    \E t \in Workers :
        \/ \E p \in {"x", _hash_password("x")} :
              /\ FindUser(users, <<"a">>, HashedPassword(p, DefaultPasswordIsHashed)) # 0
              /\ StartLogin(t, <<"a">>, p)
        \/ \E sid \in DOMAIN sessions : StartLogout(t, sid)

SweepStep ==
    \/ SweepReset
    \/ SweepBegin
    \/ SweepIterate
    \/ SweepPick
    \/ SweepGet
    \/ SweepDelete

NextSweep ==
    \/ WorkerStart
    \/ WorkerStep
    \/ StartSweep
    \/ SweepStep
    \/ Settle
    \/ TickQuiet
    \/ ReuseIds

SweepFairness ==
    /\ SF_vars(StartSweep)
    /\ WF_vars(SweepStep)
    /\ WF_vars(WorkerStep)
    /\ WF_vars(Settle)
    /\ SF_vars(TickQuiet)

SpecSweep == InitConc /\ [][NextSweep]_vars /\ SweepFairness

\* The same with the sweep and the requests excluding one another: no
\* request starts or goes on while a sweep runs, and no sweep starts while a
\* request runs.
NextSweepExclusive ==
    \/ pc[SweepThread] = "idle" /\ WorkerStart
    \/ pc[SweepThread] = "idle" /\ WorkerStep
    \/ (\A t \in Workers : pc[t] = "idle") /\ StartSweep
    \/ SweepStep
    \/ Settle
    \/ TickQuiet
    \/ ReuseIds

SpecSweepExclusive == InitConc /\ [][NextSweepExclusive]_vars /\ SweepFairness

(***************************************************************************)
(* template_engine.py: SimpleTemplateEngine.  A template text is a         *)
(* sequence of tokens: one token per directive the engine's patterns       *)
(* match, and text and whitespace tokens for what lies between them.  A    *)
(* token is [k, a, b, c]: its kind, its names, its further words and its   *)
(* spelling.  A string value of the context is a text too, so that a value *)
(* can spell a directive.                                                  *)
(***************************************************************************)
Tok(k, a, b, c) == [k |-> k, a |-> a, b |-> b, c |-> c]

Txt(s) == Tok("text", <<s>>, <<>>, "")                   \* literal text
Ws == Tok("ws", <<>>, <<>>, "")                          \* whitespace
Extends(name) == Tok("extends", <<name>>, <<>>, "")      \* {% extends "name" %}
Block(name) == Tok("block", <<name>>, <<>>, "")          \* {% block name %}
EndBlock == Tok("endblock", <<>>, <<>>, "")              \* {% endblock %}
For(x, items) == Tok("for", <<x, items>>, <<>>, "")      \* {% for x in items %}
EndFor == Tok("endfor", <<>>, <<>>, "")                  \* {% endfor %}
If(path, op, rhs) == Tok("if", path, rhs, op)            \* {% if path op rhs %}
Else == Tok("else", <<>>, <<>>, "")                      \* {% else %}
EndIf == Tok("endif", <<>>, <<>>, "")                    \* {% endif %}
\* {{ path }} and {{ path | default }}: b is <<>> or <<default>>, c tells
\* whether the braces are set off by one space ("spaced") or none ("tight").
Var(path, default, spelling) == Tok("var", path, default, spelling)

\* str.strip() of a text: the whitespace at both ends removed.
RECURSIVE StripText(_)
StripText(s) ==
    IF s = <<>> THEN s
    ELSE IF Head(s).k = "ws" THEN StripText(Tail(s))
    ELSE IF s[Len(s)].k = "ws" THEN StripText(SubSeq(s, 1, Len(s) - 1))
    ELSE s

\* Where a non-greedy (.*?) that started after token i ends: the first
\* token of the closing kind after i, 0 when there is none.
ClosingAfter(s, i, kind) ==
    LET js == {j \in (i + 1)..Len(s) : s[j].k = kind}
    IN IF js = {} THEN 0 ELSE CHOOSE j \in js : \A m \in js : j <= m

\* extends_pattern.search(content).group(1): <<>> when there is no match.
ExtendsOf(content) ==
    LET is == {i \in 1..Len(content) : content[i].k = "extends"}
    IN IF is = {} THEN NoneVal
       ELSE Some(content[CHOOSE i \in is : \A m \in is : i <= m].a[1])

\* extends_pattern.sub('', content)
RECURSIVE WithoutExtends(_)
WithoutExtends(content) ==
    IF content = <<>> THEN <<>>
    ELSE IF Head(content).k = "extends" THEN WithoutExtends(Tail(content))
    ELSE <<Head(content)>> \o WithoutExtends(Tail(content))

\* _extract_blocks: block_pattern.findall from token i on, later matches of
\* a name replacing earlier ones in the dict.
RECURSIVE _extract_blocks_from(_, _, _)
_extract_blocks_from(content, i, blocks) ==
    IF i > Len(content) THEN blocks
    ELSE LET j == ClosingAfter(content, i, "endblock")
         IN IF content[i].k = "block" /\ j # 0
            THEN _extract_blocks_from(content, j + 1,
                     [n \in DOMAIN blocks \cup {content[i].a[1]} |->
                         IF n = content[i].a[1]
                         THEN StripText(SubSeq(content, i + 1, j - 1))
                         ELSE blocks[n]])
            ELSE _extract_blocks_from(content, i + 1, blocks)

_extract_blocks(content) == _extract_blocks_from(content, 1, <<>>)

\* all_blocks.update(template_blocks)
Update_setdefault(all_blocks, template_blocks) ==
    [n \in DOMAIN all_blocks \cup DOMAIN template_blocks |->
        IF n \in DOMAIN all_blocks THEN all_blocks[n] ELSE template_blocks[n]]

Update(all_blocks, template_blocks) ==
    [n \in DOMAIN all_blocks \cup DOMAIN template_blocks |->
        IF n \in DOMAIN template_blocks THEN template_blocks[n] ELSE all_blocks[n]]

\* _collect_blocks_from_chain: for template_name in reversed(inheritance_chain)
RECURSIVE _collect_blocks_from_chain(_, _)
_collect_blocks_from_chain(templates, inheritance_chain) ==
    IF inheritance_chain = <<>> THEN <<>>
    ELSE Update(_collect_blocks_from_chain(templates, Tail(inheritance_chain)),
                _extract_blocks(WithoutExtends(templates[Head(inheritance_chain)])))

\* _apply_blocks: block_pattern.sub(replace_block, root_content)
RECURSIVE _apply_blocks_from(_, _, _)
_apply_blocks_from(root_content, i, blocks) ==
    IF i > Len(root_content) THEN <<>>
    ELSE LET j == ClosingAfter(root_content, i, "endblock")
             block_name == root_content[i].a[1]
         IN IF root_content[i].k = "block" /\ j # 0
            THEN (IF block_name \in DOMAIN blocks THEN blocks[block_name]
                  ELSE StripText(SubSeq(root_content, i + 1, j - 1)))
                 \o _apply_blocks_from(root_content, j + 1, blocks)
            ELSE <<root_content[i]>> \o _apply_blocks_from(root_content, i + 1, blocks)

_apply_blocks(root_content, blocks) == _apply_blocks_from(root_content, 1, blocks)

(***************************************************************************)
(* Context values.  Each kind of Python value is a record with a field of  *)
(* its own: None, str (a text), int, bool, list, dict, the LoopInfo object *)
(* of a for loop, and the bound method that getattr finds on a dict.       *)
(***************************************************************************)
PyNone == [none |-> TRUE]
PyStr(text) == [s |-> text]
PyInt(i) == [i |-> i]
PyBool(b) == [b |-> b]
PyList(items) == [l |-> items]
PyDict(d) == [d |-> d]
PyMethod(name) == [m |-> name]
LoopInfo_same(index) == [o |-> [index |-> index, index0 |-> index, index1 |-> index]]

LoopInfo(index) == [o |-> [index |-> index, index0 |-> index, index1 |-> index + 1]]

IsKind(v, f) == f \in DOMAIN v

\* The names hasattr() finds on a value: the attributes of a LoopInfo and
\* the methods of a dict (the other kinds have methods too, under names
\* that no template here uses).
DictMethods == {"items", "keys", "values", "get"}
Attributes(v) ==
    IF IsKind(v, "o") THEN DOMAIN v.o
    ELSE IF IsKind(v, "d") THEN DictMethods
    ELSE {}

\* The walk along a dotted path that _get_variable_value and
\* replace_variable both make: attribute first, then dict key.  The result
\* is <<value>>, or <<>> when a segment is not found.
RECURSIVE Navigate(_, _)
Navigate(value, parts) ==
    IF parts = <<>> THEN Some(value)
    ELSE LET part == Head(parts)
         IN IF part \in Attributes(value)
            THEN Navigate(IF IsKind(value, "o") THEN PyInt(value.o[part])
                          ELSE PyMethod(part), Tail(parts))
            ELSE IF IsKind(value, "d") /\ part \in DOMAIN value.d
            THEN Navigate(value.d[part], Tail(parts))
            ELSE NoneVal

Resolve(parts, context) ==
    IF parts[1] \notin DOMAIN context THEN NoneVal
    ELSE Navigate(context[parts[1]], Tail(parts))

_get_variable_value(variable_path, context) ==
    LET r == Resolve(variable_path, context) IN IF r = NoneVal THEN PyNone ELSE r[1]

\* bool(value)
Truthy(v) ==
    CASE IsKind(v, "none") -> FALSE
      [] IsKind(v, "s") -> v.s # <<>>
      [] IsKind(v, "i") -> v.i # 0
      [] IsKind(v, "b") -> v.b
      [] IsKind(v, "l") -> v.l # <<>>
      [] IsKind(v, "d") -> DOMAIN v.d # {}
      [] OTHER -> TRUE

\* left_value == right_value: a bool equals the int 0 or 1 it stands for,
\* values of different kinds are otherwise unequal.
IsNumber(v) == IsKind(v, "i") \/ IsKind(v, "b")
NumberOf(v) == IF IsKind(v, "i") THEN v.i ELSE IF v.b THEN 1 ELSE 0
PyEq(v, w) ==
    IF IsNumber(v) /\ IsNumber(w) THEN NumberOf(v) = NumberOf(w)
    ELSE DOMAIN v = DOMAIN w /\ v = w

\* int(value_str) for the numerals the templates here use.
IntLiterals == ("0" :> 0) @@ ("1" :> 1) @@ ("2" :> 2)

\* _parse_literal_or_variable: the right-hand side is a sequence of words,
\* a quoted literal being its quote, its words and its quote again.
_parse_literal_or_variable(value_str, context) ==
    LET n == Len(value_str) IN
    IF n >= 1 /\ value_str[1] \in {"\"", "'"} /\ value_str[n] = value_str[1]
    THEN PyStr([i \in 1..(n - 2) |-> Txt(value_str[i + 1])])
    ELSE IF n = 1 /\ value_str[1] \in DOMAIN IntLiterals
    THEN PyInt(IntLiterals[value_str[1]])
    ELSE IF n = 1 /\ value_str[1] \in {"true", "True", "TRUE"} THEN PyBool(TRUE)
    ELSE IF n = 1 /\ value_str[1] \in {"false", "False", "FALSE"} THEN PyBool(FALSE)
    ELSE _get_variable_value(value_str, context)

\* _evaluate_condition on the condition of an if token.
_evaluate_condition_truthy(condition, context) ==
    Truthy(_get_variable_value(condition.a, context))

_evaluate_condition(condition, context) ==
    LET left_value == _get_variable_value(condition.a, context)
        right_value == _parse_literal_or_variable(condition.b, context)
    IN CASE condition.c = "==" -> PyEq(left_value, right_value)
         [] condition.c = "!=" -> ~PyEq(left_value, right_value)
         [] OTHER -> Truthy(left_value)

HasIf(s) == \E i \in 1..Len(s) : s[i].k = "if"

\* The inner while of _find_next_if_statement, from token pos on: the endif
\* that brings if_count to 0 and the else seen at if_count 1, or endif 0.
RECURSIVE MatchingEndif(_, _, _, _)
MatchingEndif(content, pos, if_count, else_pos) ==
    IF pos > Len(content) THEN [endif |-> 0, else_pos |-> 0]
    ELSE CASE content[pos].k = "if" ->
                MatchingEndif(content, pos + 1, if_count + 1, else_pos)
           [] content[pos].k = "else" /\ if_count = 1 /\ else_pos = 0 ->
                MatchingEndif(content, pos + 1, if_count, pos)
           [] content[pos].k = "endif" ->
                IF if_count = 1 THEN [endif |-> pos, else_pos |-> else_pos]
                ELSE MatchingEndif(content, pos + 1, if_count - 1, else_pos)
           [] OTHER -> MatchingEndif(content, pos + 1, if_count, else_pos)

\* The else tags else_pattern matches: "{% else %}" (Else), "{%else%}"
\* ("tight") and "{%  else %}" ("wide"), and the characters each one has.
ElseTag(spelling) == Tok("else", <<>>, <<>>, spelling)

ElseTagLen(tag) == CASE tag.c = "tight" -> 8 [] tag.c = "wide" -> 11 [] OTHER -> 10

\* len("{% else %}")
CanonicalElseLen == 10

\* s[n:] of a text by characters: whole pieces of text are dropped while
\* they fit in n, and a piece or tag that is cut in the middle is left as
\* the text of its remainder.
RECURSIVE DropChars(_, _)
DropChars(s, n) ==
    IF n = 0 \/ s = <<>> THEN s
    ELSE LET h == Head(s) IN
         IF h.k = "text" /\ h.c = "" /\ Len(h.a[1]) <= n
         THEN DropChars(Tail(s), n - Len(h.a[1]))
         ELSE <<Tok("text", <<IF h.k = "text" THEN h.a[1] ELSE h.k>>, <<>>, "cut")>>
                  \o Tail(s)

\* content[else_pos + len("{% else %}"):endif_start]: the slice starts ten
\* characters after the start of the else tag, whatever the tag's length.
ElseContent(content, else_pos, endif) ==
    LET rest == SubSeq(content, else_pos + 1, endif - 1)
        over == ElseTagLen(content[else_pos]) - CanonicalElseLen
    IN IF over > 0 THEN <<Txt("}")>> \o rest ELSE DropChars(rest, 0 - over)

\* What _find_next_if_statement returns for the if token at i, <<>> when it
\* has no matching endif or holds a nested if.
IfStatementAt(content, i) ==
    LET m == MatchingEndif(content, i + 1, 1, 0)
        if_content == SubSeq(content, i + 1,
                             (IF m.else_pos # 0 THEN m.else_pos ELSE m.endif) - 1)
        else_content == IF m.else_pos # 0
                        THEN ElseContent(content, m.else_pos, m.endif) ELSE <<>>
    IN IF m.endif = 0 \/ HasIf(if_content) \/ HasIf(else_content) THEN NoneVal
       ELSE Some([start |-> i, end |-> m.endif, condition |-> content[i],
                  if_content |-> if_content, else_content |-> else_content])

_find_next_if_statement(content) ==
    LET is == {i \in 1..Len(content) :
                  content[i].k = "if" /\ IfStatementAt(content, i) # NoneVal}
    IN IF is = {} THEN NoneVal
       ELSE IfStatementAt(content, CHOOSE i \in is : \A m \in is : i <= m)

RECURSIVE _process_if_statements(_, _)
_process_if_statements(content, context) ==
    LET if_match == _find_next_if_statement(content) IN
    IF if_match = NoneVal THEN content
    ELSE LET f == if_match[1]
             replacement == IF _evaluate_condition(f.condition, context)
                            THEN f.if_content ELSE f.else_content
         IN _process_if_statements(
                SubSeq(content, 1, f.start - 1) \o replacement
                    \o SubSeq(content, f.end + 1, Len(content)),
                context)

\* str(value) as replace_variable returns it: '' for None, true/false for
\* a bool, a string as it is, the numeral of an int, and the repr of the
\* other kinds as one piece of text.
ValueText(v) ==
    CASE IsKind(v, "none") -> <<>>
      [] IsKind(v, "b") -> <<Txt(IF v.b THEN "true" ELSE "false")>>
      [] IsKind(v, "s") -> v.s
      [] IsKind(v, "i") -> <<Txt(ToString(v.i))>>
      [] IsKind(v, "m") -> <<Txt("<built-in method " \o v.m \o " of dict object>")>>
      [] OTHER -> <<Txt("<repr>")>>

\* replace_variable: the text that replaces one variable token.
replace_variable(match, context) ==
    LET r == Resolve(match.a, context) IN
    IF r # NoneVal THEN ValueText(r[1])
    ELSE IF match.b # <<>> THEN <<Txt(match.b[1])>>
    ELSE <<Var(match.a, <<>>, "spaced")>>

\* _process_variables: variable_pattern.sub(replace_variable, content)
RECURSIVE _process_variables(_, _)
_process_variables(content, context) ==
    IF content = <<>> THEN <<>>
    ELSE (IF Head(content).k = "var" THEN replace_variable(Head(content), context)
          ELSE <<Head(content)>>)
         \o _process_variables(Tail(content), context)

\* The elements enumerate() yields: those of a list, the keys of a dict.
RECURSIVE KeyList(_)
KeyList(S) ==
    IF S = {} THEN <<>>
    ELSE LET n == CHOOSE n \in S : TRUE IN <<PyStr(<<Txt(n)>>)>> \o KeyList(S \ {n})

Elements(iterable) ==
    IF IsKind(iterable, "l") THEN iterable.l ELSE KeyList(DOMAIN iterable.d)

\* loop_context: the copy of the context with the loop variable and 'loop'.
LoopContext(context, loop_var, item, index) ==
    [n \in DOMAIN context \cup {loop_var, "loop"} |->
        IF n = "loop" THEN LoopInfo(index)
        ELSE IF n = loop_var THEN item
        ELSE context[n]]

\* replace_for_loop, from the element at index on.
RECURSIVE RenderIterations(_, _, _, _, _)
RenderIterations(loop_content, loop_var, items, index, context) ==
    IF index >= Len(items) THEN <<>>
    ELSE LET loop_context == LoopContext(context, loop_var, items[index + 1], index)
         IN _process_variables(_process_if_statements(loop_content, loop_context),
                               loop_context)
            \o RenderIterations(loop_content, loop_var, items, index + 1, context)

replace_for_loop(match, loop_content, context) ==
    LET loop_var == match.a[1]
        iterable_name == match.a[2]
    IN IF iterable_name \notin DOMAIN context THEN <<>>
       ELSE IF ~(IsKind(context[iterable_name], "l") \/ IsKind(context[iterable_name], "d"))
       THEN <<>>
       ELSE RenderIterations(loop_content, loop_var, Elements(context[iterable_name]),
                             0, context)

\* _process_for_loops: for_pattern.sub(replace_for_loop, content)
RECURSIVE _process_for_loops_from(_, _, _)
_process_for_loops_from(content, i, context) ==
    IF i > Len(content) THEN <<>>
    ELSE LET j == ClosingAfter(content, i, "endfor")
         IN IF content[i].k = "for" /\ j # 0
            THEN replace_for_loop(content[i], SubSeq(content, i + 1, j - 1), context)
                 \o _process_for_loops_from(content, j + 1, context)
            ELSE <<content[i]>> \o _process_for_loops_from(content, i + 1, context)

_process_for_loops(content, context) == _process_for_loops_from(content, 1, context)

(***************************************************************************)
(* render_template, one step per statement of its try block: tpl holds the *)
(* template directory, the arguments and the locals of the call.           *)
(***************************************************************************)
\* template_dir / template_name, as _load_template prints it.
template_dir == "templates"
TemplateNotFound(name) == "Template not found: " \o template_dir \o "/" \o name
CircularInheritance(name) == "Circular inheritance detected: " \o name

\* The string the except clause returns for the exception text e.
ErrorFragment(e) ==
    <<Tok("text", <<"<h1>Template Error</h1><p>Error rendering template: ", e, "</p>">>,
          <<>>, "")>>

\* The call render_template(template_name, context) as it enters its try.
RenderCall(templates, template_name, context) ==
    [phase |-> "chain", templates |-> templates, template_name |-> template_name,
     context |-> context, chain |-> <<>>, current |-> Some(template_name),
     visited |-> {}, loads |-> 0, blocks |-> <<>>, content |-> <<>>,
     exc |-> NoneVal, ret |-> NoneVal]

\* if current_template in visited: raise
OnRevisit_return(current_template) == tpl' = [tpl EXCEPT !.phase = "collect"]

OnRevisit(current_template) ==
    tpl' = [tpl EXCEPT !.phase = "raised",
                       !.exc = Some(CircularInheritance(current_template))]

OnlyTemplate == UNCHANGED <<users, sessions, failed_attempts, lock_until,
                            next_session_debug_id, now, auth_required, last, streak,
                            threads, _auth_manager, heap>>

\* _build_inheritance_chain, one turn of its while loop.
ChainVisit ==
    /\ tpl.phase = "chain"
    /\ tpl.current # NoneVal
    /\ LET current_template == tpl.current[1] IN
       IF current_template \in tpl.visited
       THEN OnRevisit(current_template)
       ELSE IF current_template \notin DOMAIN tpl.templates
       THEN tpl' = [tpl EXCEPT !.phase = "raised",
                               !.exc = Some(TemplateNotFound(current_template)),
                               !.visited = @ \cup {current_template},
                               !.chain = Append(@, current_template),
                               !.loads = @ + 1]
       ELSE tpl' = [tpl EXCEPT !.visited = @ \cup {current_template},
                               !.chain = Append(@, current_template),
                               !.loads = @ + 1,
                               !.current = ExtendsOf(tpl.templates[current_template])]
    /\ OnlyTemplate

\* _build_inheritance_chain returns its chain.
ChainReturn ==
    /\ tpl.phase = "chain"
    /\ tpl.current = NoneVal
    /\ tpl' = [tpl EXCEPT !.phase = "collect"]
    /\ OnlyTemplate

CollectBlocks ==
    /\ tpl.phase = "collect"
    /\ tpl' = [tpl EXCEPT !.phase = "apply",
                          !.blocks = _collect_blocks_from_chain(tpl.templates, tpl.chain)]
    /\ OnlyTemplate

\* root_content = self._load_template(inheritance_chain[-1]); _apply_blocks
ApplyBlocks ==
    /\ tpl.phase = "apply"
    /\ tpl' = [tpl EXCEPT !.phase = "for",
                          !.content = _apply_blocks(tpl.templates[tpl.chain[Len(tpl.chain)]],
                                                    tpl.blocks)]
    /\ OnlyTemplate

ProcessForLoops ==
    /\ tpl.phase = "for"
    /\ tpl' = [tpl EXCEPT !.phase = "if",
                          !.content = _process_for_loops(tpl.content, tpl.context)]
    /\ OnlyTemplate

ProcessIfStatements ==
    /\ tpl.phase = "if"
    /\ tpl' = [tpl EXCEPT !.phase = "vars",
                          !.content = _process_if_statements(tpl.content, tpl.context)]
    /\ OnlyTemplate

\* _process_variables; return final_content
ProcessVariables ==
    /\ tpl.phase = "vars"
    /\ LET final_content == _process_variables(tpl.content, tpl.context)
       IN tpl' = [tpl EXCEPT !.phase = "done", !.content = final_content,
                             !.ret = Some(final_content)]
    /\ OnlyTemplate

\* except Exception as e: return the error fragment
ExceptClause_reraise(e) == NoneVal

ExceptClause(e) == Some(ErrorFragment(e))

HandleException ==
    /\ tpl.phase = "raised"
    /\ tpl' = [tpl EXCEPT !.phase = "done", !.ret = ExceptClause(tpl.exc[1])]
    /\ OnlyTemplate

NextRender ==
    \/ ChainVisit
    \/ ChainReturn
    \/ CollectBlocks
    \/ ApplyBlocks
    \/ ProcessForLoops
    \/ ProcessIfStatements
    \/ ProcessVariables
    \/ HandleException

\* The manager and the threads while only the template engine runs.
NoServer ==
    /\ users = <<>>
    /\ sessions = <<>>
    /\ failed_attempts = 0
    /\ lock_until = NoneVal
    /\ next_session_debug_id = 1
    /\ now = 0
    /\ auth_required = TRUE
    /\ last = [op |-> "idle"]
    /\ streak = NoStreak
    /\ ThreadsInit
    /\ _auth_manager = TheManager
    /\ heap = HeapInit

(***************************************************************************)
(* Template directories for the inheritance steps: each of the templates   *)
(* A, B and C extends nothing, one of the three or the missing M, and      *)
(* carries one of a few bodies whose texts name the template they are in.  *)
(***************************************************************************)
TemplateNames == {"A", "B", "C"}
MissingTemplate == "M"

ExtendsOptions == {NoneVal} \cup {Some(m) : m \in TemplateNames \cup {MissingTemplate}}

BodyKinds == {"plain", "both", "u", "twice"}

Body(n, kind) ==
    CASE kind = "plain" -> <<Txt("x" \o n)>>
      [] kind = "both" -> <<Txt("h" \o n), Block("t"), Ws, Txt("t" \o n), Ws, EndBlock,
                            Block("u"), Txt("u" \o n), EndBlock>>
      [] kind = "u" -> <<Block("u"), Txt("u" \o n), Ws, Txt("v" \o n), EndBlock,
                         Txt("f" \o n)>>
      [] kind = "twice" -> <<Block("t"), Txt("t" \o n), EndBlock, Ws,
                             Block("t"), Txt("s" \o n), EndBlock>>

Document(n, e, kind) == (IF e = NoneVal THEN <<>> ELSE <<Extends(e[1])>>) \o Body(n, kind)

TemplateDirs ==
    {[n \in TemplateNames |-> Document(n, f[n][1], f[n][2])] :
        f \in [TemplateNames -> ExtendsOptions \X BodyKinds]}

InitTpl ==
    /\ NoServer
    /\ \E ts \in TemplateDirs, start_name \in TemplateNames \cup {MissingTemplate} :
          tpl = RenderCall(ts, start_name, <<>>)

SpecTpl == InitTpl /\ [][NextRender]_vars

\* The directories of documents without blocks: every extends relation.
InitChain ==
    /\ NoServer
    /\ \E f \in [TemplateNames -> ExtendsOptions],
          start_name \in TemplateNames \cup {MissingTemplate} :
          tpl = RenderCall([n \in TemplateNames |-> Document(n, f[n], "plain")],
                           start_name, <<>>)

\* A call that has started runs its statements to the return.
SpecChain == InitChain /\ [][NextRender]_vars /\ WF_vars(NextRender)

(***************************************************************************)
(* Documents and contexts for the rendering steps: one document P without  *)
(* inheritance, holding a placeholder, a conditional or a loop, rendered   *)
(* against contexts of every kind of value, among them strings that spell  *)
(* a placeholder or a conditional.                                         *)
(***************************************************************************)
Str(w) == PyStr(<<Txt(w)>>)

SpelledVar == <<Var(<<"n">>, <<>>, "spaced")>>                 \* "{{ n }}"
SpelledIf == <<If(<<"n">>, "", <<>>), Txt("Y"), EndIf>>        \* "{% if n %}Y{% endif %}"

Contexts ==
    { <<>>,
      [n |-> Str("S")], [n |-> PyStr(<<>>)], [n |-> PyNone], [n |-> PyInt(1)],
      [n |-> PyBool(TRUE)], [n |-> PyBool(FALSE)],
      [a |-> PyDict([b |-> Str("x")])], [a |-> PyDict([b |-> Str("y")])],
      [a |-> PyDict([b |-> PyNone])], [a |-> PyDict(<<>>)],
      [v |-> PyStr(SpelledVar), n |-> Str("S")],
      [v |-> PyStr(SpelledIf), n |-> Str("S")],
      [items |-> PyList(<<PyDict([name |-> Str("p"), active |-> PyBool(TRUE)]),
                          PyDict([name |-> Str("q"), active |-> PyBool(FALSE)])>>),
       item |-> Str("outer")],
      [items |-> PyList(<<PyStr(SpelledVar), Str("z")>>), n |-> Str("S")],
      [items |-> PyList(<<Str("z"), PyStr(SpelledIf)>>), n |-> Str("S")],
      [items |-> PyList(<<>>)], [items |-> Str("abc")], [items |-> PyInt(1)],
      [items |-> PyDict([k |-> Str("w")]), n |-> Str("S")] }

Paths == {<<"n">>, <<"q">>, <<"v">>, <<"a", "b">>, <<"a", "c">>, <<"a", "items">>,
          <<"q", "r">>, <<"n", "x">>}

VarDocs == {<<Txt("<"), Var(path, dflt, spelling), Txt(">")>> :
               path \in Paths, dflt \in {<<>>, <<"d">>}, spelling \in {"spaced", "tight"}}

\* The right-hand sides: "x", 1, true and the variable n.
RightHandSides == {<<"\"", "x", "\"">>, <<"1">>, <<"true">>, <<"n">>}

Conditions ==
    {If(path, "", <<>>) : path \in Paths}
        \cup {If(path, op, rhs) : path \in Paths, op \in {"==", "!="}, rhs \in RightHandSides}

IfDocs ==
    {<<cond, Txt("Y"), Else, Txt("N"), EndIf>> : cond \in Conditions}
        \cup {<<Txt("<"), cond, Txt("Y"), EndIf, Txt(">")>> : cond \in Conditions}
        \cup {<<If(<<"n">>, "", <<>>), cond, Txt("Y"), Else, Txt("N"), EndIf, Else,
                Txt("M"), EndIf>> : cond \in {If(<<"a", "b">>, "==", <<"\"", "x", "\"">>),
                                              If(<<"q">>, "!=", <<"1">>)}}

LoopBodies ==
    { <<Var(<<"item">>, <<>>, "spaced")>>,
      <<If(<<"item", "active">>, "", <<>>), Var(<<"item", "name">>, <<>>, "tight"), EndIf>>,
      <<Var(<<"loop", "index0">>, <<>>, "spaced"), Txt(":"),
        Var(<<"loop", "index1">>, <<>>, "spaced"), Txt(":"),
        Var(<<"item">>, <<>>, "spaced"), Txt(";")>>,
      <<If(<<"loop", "index">>, "==", <<"1">>), Txt("Y"), Else,
        Var(<<"n">>, <<"d">>, "spaced"), EndIf>> }

ForDocs ==
    {<<Txt("<"), For("item", source)>> \o body
        \o <<EndFor, Txt("|"), Var(<<"item">>, <<"d">>, "spaced"), Txt(">")>> :
        source \in {"items", "n", "q"}, body \in LoopBodies}

Docs == VarDocs \cup IfDocs \cup ForDocs

InitRender ==
    /\ NoServer
    /\ \E doc \in Docs, context \in Contexts, start_name \in {"P", MissingTemplate} :
          tpl = RenderCall([name \in {"P"} |-> doc], start_name, context)

SpecRender == InitRender /\ [][NextRender]_vars

(***************************************************************************)
(* _process_if_statements by the turns of its while loop, on texts of      *)
(* if, else and endif tags in any order and on the well-nested texts.      *)
(***************************************************************************)
MaxTags == 4

IfConditions == {If(<<"a">>, "", <<>>), If(<<"b">>, "", <<>>)}

ElseTags == {Else, ElseTag("tight"), ElseTag("wide")}

IfAlphabet == IfConditions \cup ElseTags \cup {EndIf, Txt("Y")}

AnyTagTexts == UNION {[1..n -> IfAlphabet] : n \in 0..MaxTags}

Branches0 == {<<>>, <<Txt("Y")>>}

Constructs(branches) ==
    {<<cond>> \o b1 \o e \o <<EndIf>> :
        cond \in IfConditions, b1 \in branches,
        e \in {<<>>} \cup {<<t>> \o b2 : t \in ElseTags, b2 \in branches}}

Branches1 == Branches0 \cup Constructs(Branches0)

WellNestedTexts == Branches1 \cup Constructs(Branches1)

IfContexts == {[a |-> PyBool(x), b |-> PyBool(y)] : x, y \in BOOLEAN}

\* The call _process_if_statements(content, context) before its loop.
IfCall(content, context) ==
    [phase |-> "if_turn", doc |-> content, content |-> content,
     context |-> context, turns |-> 0, ret |-> NoneVal]

\* One turn of the while loop that finds an if statement and replaces it.
IfTurn ==
    /\ tpl.phase = "if_turn"
    /\ LET if_match == _find_next_if_statement(tpl.content) IN
       /\ if_match # NoneVal
       /\ LET f == if_match[1]
              replacement == IF _evaluate_condition(f.condition, tpl.context)
                             THEN f.if_content ELSE f.else_content
          IN tpl' = [tpl EXCEPT !.content = SubSeq(tpl.content, 1, f.start - 1)
                                               \o replacement
                                               \o SubSeq(tpl.content, f.end + 1,
                                                         Len(tpl.content)),
                                !.turns = tpl.turns + 1]
    /\ OnlyTemplate

\* if not if_match: break; return content
IfBreak ==
    /\ tpl.phase = "if_turn"
    /\ _find_next_if_statement(tpl.content) = NoneVal
    /\ tpl' = [tpl EXCEPT !.phase = "if_done", !.ret = Some(tpl.content)]
    /\ OnlyTemplate

NextIf == IfTurn \/ IfBreak

InitIf ==
    /\ NoServer
    /\ \E content \in AnyTagTexts \cup WellNestedTexts, context \in IfContexts :
          tpl = IfCall(content, context)

SpecIf == InitIf /\ [][NextIf]_vars

(***************************************************************************)
(* web_server.py: the pages.  handle_pages builds the context, runs the    *)
(* view's process_context and hands the template to render_template, which *)
(* answers with what the engine returns.  What the view's processor and    *)
(* the engine do are inputs: each returns, or raises an exception whose    *)
(* text is one of ErrorTexts.                                              *)
(***************************************************************************)
ErrorTexts == {"db password=p", "/srv/app/x.py"}

\* view.process_context(context, path, query_params)
ProcessorOutcomes ==
    {[raises |-> FALSE, message |-> ""]}
        \cup {[raises |-> TRUE, message |-> m] : m \in ErrorTexts}

\* template_engine.render_template(template_name, context): the page, the
\* fragment SimpleTemplateEngine returns for an exception it caught, or an
\* exception (no engine, or an ITemplateEngine that raises).
RenderOutcomes ==
    {[kind |-> "page", message |-> ""]}
        \cup {[kind |-> k, message |-> m] : k \in {"fragment", "raises"}, m \in ErrorTexts}

\* API callbacks that return, with a payload json.dumps takes or not, and
\* that raise.
FailingOutcomes ==
    {[raises |-> FALSE, data |-> d, status |-> st, message |-> ""] :
        d \in {"[]", Unserializable}, st \in {NoneVal, Some(400)}}
        \cup {[raises |-> TRUE, data |-> "", status |-> NoneVal, message |-> m] :
                m \in ErrorTexts}

PageResponse(answered, status, body) ==
    [answered |-> answered, status |-> status, body |-> body]

\* CustomHTTPRequestHandler.render_template: 200 with the engine's text, or
\* send_error(500, f"Template rendering error: {str(e)}").
handler_render_template(rendering) ==
    IF rendering.kind = "raises"
    THEN PageResponse(TRUE, 500, <<"Template rendering error: ", rendering.message>>)
    ELSE IF rendering.kind = "fragment"
    THEN PageResponse(TRUE, 200, ErrorFragment(rendering.message)[1].a)
    ELSE PageResponse(TRUE, 200, <<"page">>)

\* handle_pages for a registered view: nothing catches what process_context
\* raises, the exception leaves do_GET and the connection is closed with no
\* response written.
handle_pages(processor, rendering) ==
    IF processor.raises THEN PageResponse(FALSE, 0, <<>>)
    ELSE handler_render_template(rendering)

\* do_GET on the path of a view.
PageGet(target, cookie, processor, rendering) ==
    LET r == do_GET_result(sessions, failed_attempts, lock_until, now, target, cookie)
        a == IF r.handler = "view" THEN handle_pages(processor, rendering)
             ELSE PageResponse(TRUE, r.status, <<r.body>>)
    IN /\ Idle
       /\ Dispatch(UrlPath(target)).handler = "view"
       /\ sessions' = r.sessions
       /\ failed_attempts' = r.failed_attempts
       /\ lock_until' = r.lock_until
       /\ last' = [op |-> "page_get", target |-> target, cookie |-> cookie,
                   processor |-> processor, rendering |-> rendering,
                   reached |-> r.handler = "view",
                   answered |-> a.answered, status |-> a.status, body |-> a.body]
       /\ UNCHANGED <<users, next_session_debug_id, now, auth_required>>
       /\ Observe

\* The server under requests whose callbacks, processors and templates fail.
NextFailures ==
    \/ \E target \in {<<"/", "events">>, LoginPath}, cookie \in CookieInputs,
          processor \in ProcessorOutcomes, rendering \in RenderOutcomes :
          PageGet(target, cookie, processor, rendering)
    \/ \E cookie \in CookieInputs, outcome \in FailingOutcomes :
          ApiGet(EventsApiPath, cookie, <<API({EventsApiPath}, "events_api")>>, outcome)
    \/ \E body \in {PostBody(TRUE, "{}"), PostBody(TRUE, "{")}, headers \in HeaderMaps,
          outcome \in FailingOutcomes :
          ApiPost(EventsApiPath, NoCookie, body, headers,
                  <<API({EventsApiPath}, "events_api")>>, outcome)
    \/ \E body \in SessionBodies : Post(ApiLoginPath, body)
    \/ Return

SpecFailures == InitWeb /\ [][NextFailures]_vars

(***************************************************************************)
(* handle_pages and the objects it shares between requests.  A request of  *)
(* worker w copies the registered context, adds the defaults (the list     *)
(* config["top_bar_links"] among them, put in by reference), runs the      *)
(* view's process_context, which may write to what it was given, and       *)
(* renders what the context then holds.                                    *)
(***************************************************************************)
MaxRequests == 3

\* What a process_context does to its context: nothing, context["events"]
\* = v, context["collectors"][0]["status"] = v (update_admin_data), or
\* context["top_bar_links"].append(v).
Mutations == {"none", "add_key", "nested", "links"}

deepcopy_alias(w) == SeedAddr

\* copy.deepcopy(view.context): the dict of the request is a new object.
deepcopy(w) == w

OnlyHeap == UNCHANGED <<users, sessions, failed_attempts, lock_until,
                        next_session_debug_id, now, auth_required, last, streak,
                        threads, tpl, _auth_manager>>

\* context = copy.deepcopy(view.context); context.update({...})
StartView(w, m) ==
    LET base == deepcopy(w) IN
    /\ heap.req[w].phase = "idle"
    /\ heap.requests < MaxRequests
    /\ heap' = [heap EXCEPT
                  !.requests = @ + 1,
                  !.obj = [a \in DOMAIN @ |->
                             IF a = base /\ a # SeedAddr THEN @[SeedAddr] ELSE @[a]],
                  !.req[w] = [NoRequest EXCEPT !.phase = "copied",
                                               !.id = heap.requests + 1,
                                               !.mutation = m, !.base = base]]
    /\ OnlyHeap

\* view.process_context(context, path, query_params)
ProcessContext(w) ==
    LET r == heap.req[w] IN
    /\ r.phase = "copied"
    /\ heap' = [heap EXCEPT
                  !.obj[r.base] =
                      IF r.mutation = "add_key" THEN [@ EXCEPT !.events = r.id]
                      ELSE IF r.mutation = "nested"
                      THEN [@ EXCEPT !.collectors[1].status = r.id]
                      ELSE @,
                  !.links = IF r.mutation = "links" THEN Append(@, r.id) ELSE @,
                  !.req[w].phase = "processed"]
    /\ OnlyHeap

\* self.render_template(view.template, context, ...): the page shows what
\* the context holds now.
RenderView(w) ==
    LET r == heap.req[w] IN
    /\ r.phase = "processed"
    /\ heap' = [heap EXCEPT
                  !.req[w].phase = "done",
                  !.req[w].seen = [context |-> heap.obj[r.base],
                                   top_bar_links |-> heap.links]]
    /\ OnlyHeap

\* The request returns; its thread ends.
FinishView(w) ==
    /\ heap.req[w].phase = "done"
    /\ heap' = [heap EXCEPT !.req[w] = NoRequest]
    /\ OnlyHeap

NextViews ==
    \/ \E w \in Workers, m \in Mutations : StartView(w, m)
    \/ \E w \in Workers : ProcessContext(w)
    \/ \E w \in Workers : RenderView(w)
    \/ \E w \in Workers : FinishView(w)

SpecViews == InitWeb /\ [][NextViews]_vars

(***************************************************************************)
(* Properties of the manager's operations.                                 *)
(***************************************************************************)
\* The credentials passed to the authenticate call recorded in l are those of
\* a registered user: the raw password of the user when passed as raw, the
\* stored hash when passed as already hashed.
CorrectCredentials(l) ==
    \E i \in 1..Len(users) :
        /\ users[i].username = l.username
        /\ users[i].hashed_password =
              (IF l.mode = "raw" THEN _hash_password(l.password) ELSE l.password)

\* C1: from an unlocked manager with no failed attempt, fewer than N failed
\* authenticate calls in a row leave is_locked() false, N of them make it true
\* for as long as the lockout duration has not elapsed, and an authenticate
\* call with correct credentials made then returns None, creates no session
\* and leaves failed_attempts as it was.
C1_LockedAfterNFailures ==
    [][ /\ (streak'.n >= 0 /\ streak'.n < lock_after_failed_attempts
              => ~is_locked_ret(lock_until', now'))
        /\ (streak'.n = lock_after_failed_attempts
              /\ now' - streak'.t < lock_after_failed_attempts_time_minutes
              => is_locked_ret(lock_until', now'))
        /\ (streak.n = lock_after_failed_attempts
              /\ now - streak.t < lock_after_failed_attempts_time_minutes
              /\ last'.op = "authenticate" /\ CorrectCredentials(last')
              => /\ last'.ret = NoneVal
                 /\ sessions' = sessions
                 /\ failed_attempts' = failed_attempts) ]_vars

C1_Witness ==
    /\ streak.n = lock_after_failed_attempts + 1
    /\ now - streak.t < lock_after_failed_attempts_time_minutes
    /\ last.op = "authenticate" /\ CorrectCredentials(last)
    /\ last.ret = NoneVal
    /\ failed_attempts = lock_after_failed_attempts

\* C2: retrieve_user_by_session_id on a stored session returns None and
\* removes the session when its inactivity exceeds the timeout, and otherwise
\* (exactly at the timeout included) returns the owner and sets last_access
\* to now; on an id that is not stored it returns None and changes nothing.
C2_Validate ==
    [][ last'.op = "retrieve_user_by_session_id" =>
          LET sid == last'.sid IN
          IF sid \notin DOMAIN sessions
          THEN last'.ret = NoneVal /\ sessions' = sessions
          ELSE IF now - sessions[sid].last_access > session_timeout_hours
          THEN /\ last'.ret = NoneVal
               /\ DOMAIN sessions' = DOMAIN sessions \ {sid}
               /\ \A k \in DOMAIN sessions' : sessions'[k] = sessions[k]
          ELSE /\ last'.ret = Some(sessions[sid].user)
               /\ DOMAIN sessions' = DOMAIN sessions
               /\ sessions'[sid].last_access = now
               /\ sessions'[sid].user = sessions[sid].user
               /\ \A k \in DOMAIN sessions \ {sid} : sessions'[k] = sessions[k] ]_vars

C2_Witness ==
    /\ last.op = "retrieve_user_by_session_id"
    /\ last.found /\ last.age > session_timeout_hours
    /\ last.ret = NoneVal
    /\ last.sid \notin DOMAIN sessions

\* C6: is_locked() called at or after lock_until returns false, clears
\* lock_until and resets failed_attempts to 0, and the authenticate call with
\* correct credentials that follows succeeds; called before lock_until it
\* returns true and changes nothing.
C6_LockExpiry ==
    [][ /\ (last'.op = "is_locked" /\ lock_until # NoneVal /\ now >= lock_until[1]
              => /\ last'.ret = FALSE
                 /\ lock_until' = NoneVal
                 /\ failed_attempts' = 0)
        /\ (last'.op = "is_locked" /\ lock_until # NoneVal /\ now < lock_until[1]
              => /\ last'.ret = TRUE
                 /\ UNCHANGED <<users, sessions, failed_attempts, lock_until,
                                next_session_debug_id>>)
        /\ (last'.op = "is_locked" /\ lock_until # NoneVal /\ now >= lock_until[1]
              => \A u \in UserNames, p \in PasswordInputs, m \in {"omitted", "raw"} :
                   LET l == [username |-> u, password |-> p, mode |-> m]
                       a == authenticate_result(users', sessions', failed_attempts',
                                lock_until', next_session_debug_id', now', u, p,
                                IF m = "omitted" THEN DefaultPasswordIsHashed ELSE FALSE)
                   IN CorrectCredentials(l)
                        => a.ret # NoneVal /\ a.ret[1][1].username = u) ]_vars

C6_Witness ==
    /\ last.op = "is_locked" /\ last.was_set /\ last.ret = FALSE
    /\ lock_until = NoneVal
    /\ failed_attempts = 0
    /\ users # <<>>

\* C7 as claimed: authenticate(u, p) with the third argument omitted, p the
\* raw password u was created with, succeeds on an unlocked manager.
C7_RawByDefault ==
    [][ /\ last'.op = "authenticate" /\ last'.mode = "omitted"
        /\ ~is_locked_ret(lock_until, now)
        /\ \E i \in 1..Len(users) :
              /\ users[i].username = last'.username
              /\ users[i].hashed_password = _hash_password(last'.password)
        => last'.ret # NoneVal ]_vars

\* C7 as amended: on an unlocked manager authenticate(u, p, False) with the
\* raw password u was created with succeeds and returns u's User with a new
\* session id; with the third argument omitted the password is taken as
\* already hashed, so the call succeeds exactly when p is the stored hash.
C7_HashedByDefault ==
    [][ last'.op = "authenticate" /\ ~is_locked_ret(lock_until, now) =>
          LET stored(h) == \E i \in 1..Len(users) :
                              /\ users[i].username = last'.username
                              /\ users[i].hashed_password = h
              ok == /\ last'.ret # NoneVal
                    /\ last'.ret[1][1].username = last'.username
                    /\ last'.ret[1][2] \notin DOMAIN sessions
                    /\ last'.ret[1][2] \in DOMAIN sessions'
                    /\ sessions'[last'.ret[1][2]].user = last'.ret[1][1]
          IN /\ (last'.mode = "raw" /\ stored(_hash_password(last'.password)) => ok)
             /\ (last'.mode = "omitted" => (ok <=> stored(last'.password)))
             /\ (last'.mode = "omitted" /\ ~stored(last'.password)
                   => last'.ret = NoneVal) ]_vars

C7_Witness ==
    /\ last.op = "authenticate" /\ last.mode = "omitted"
    /\ \E p \in RawPasswords : last.password = _hash_password(p)
    /\ last.ret # NoneVal
    /\ last.ret[1][1].username = last.username


(***************************************************************************)
(* Properties of the request handler.                                      *)
(***************************************************************************)
\* The cookie names a stored session whose inactivity is within the timeout.
LiveCookie(cookie) ==
    /\ cookie.token # NoneVal
    /\ cookie.token[1] \in DOMAIN sessions
    /\ now - sessions[cookie.token[1]].last_access <= session_timeout_hours

\* C3: with authentication enabled, a GET to a path other than /static/*,
\* /login, /logged_out_page and /logout without a live session cookie runs no
\* API callback, context processor or template: it is answered 401 with a
\* fixed body under /api/, and otherwise 302 to /login?next=<quoted target>.
C3_SessionGate ==
    [][ LET path == UrlPath(last'.target) IN
        /\ last'.op = "GET" /\ auth_required
        /\ ~StartsWith(path, <<"/", "static", "/">>)
        /\ path \notin {<<"/", "login">>, <<"/", "logged_out_page">>, <<"/", "logout">>}
        /\ ~LiveCookie(last'.cookie)
        => /\ last'.handler = "none"
           /\ IF StartsWith(path, <<"/", "api", "/">>)
              THEN /\ last'.status = 401
                   /\ last'.body = "Unauthorized"
                   /\ last'.location = NoneVal
              ELSE /\ last'.status = 302
                   /\ last'.location =
                        Some(<<"/", "login", "?", "next", "=">> \o Quote(last'.target))
                   /\ (last'.target = <<"/", "events", "?", "name", "=", "e">>
                        => last'.location = Some(<<"/", "login", "?", "next", "=", "/",
                                                   "events", "%3F", "name", "%3D", "e">>)) ]_vars

C3_Witness ==
    /\ last.op = "GET" /\ auth_required
    /\ last.target = <<"/", "events", "?", "name", "=", "e">>
    /\ last.cookie.token # NoneVal /\ last.cookie.token[1] > 0
    /\ last.status = 302 /\ last.handler = "none"

\* The login request is a POST to the login endpoint with a JSON object body.
LoginPost(l) == l.op = "POST" /\ UrlPath(l.target) = ApiLoginPath /\ l.body.json_ok

\* The next value as the claims describe its sanitizing: trimmed, and "/"
\* when it is empty or does not start with "/".
SanitizedNext(next) ==
    LET n == Strip(IF next = NoneVal THEN <<"/">> ELSE next[1])
    IN IF n = <<>> \/ Head(n) # "/" THEN <<"/">> ELSE n

\* What a successful login answers: 200, an HttpOnly auth_token cookie naming
\* a session created by this request and owned by the user, and the
\* sanitized next as redirect.
LoginSucceeded ==
    /\ last'.status = 200
    /\ last'.set_cookie # NoneVal
    /\ "HttpOnly" \in {last'.cookie_attrs[i] : i \in 1..Len(last'.cookie_attrs)}
    /\ last'.set_cookie[1] \notin DOMAIN sessions
    /\ last'.set_cookie[1] \in DOMAIN sessions'
    /\ sessions'[last'.set_cookie[1]].user.username = last'.body.username
    /\ last'.redirect = Some(SanitizedNext(last'.body.next))

\* C4 as claimed: a login POST with the username and the password given to
\* create_user, on an unlocked manager, succeeds.
C4_LoginWithPassword ==
    [][ /\ LoginPost(last')
        /\ ~is_locked_ret(lock_until, now)
        /\ \E i \in 1..Len(users) :
              /\ users[i].username = last'.body.username
              /\ users[i].hashed_password = _hash_password(last'.body.password)
        => LoginSucceeded ]_vars

\* C4 as amended: a login POST with the username of a created user, when it
\* is non-empty and has no surrounding whitespace, and with the SHA-256 hash
\* stored for that user as password, on an unlocked manager, succeeds.
C4_LoginWithHash ==
    [][ /\ LoginPost(last')
        /\ ~is_locked_ret(lock_until, now)
        /\ last'.body.username # <<>>
        /\ Strip(last'.body.username) = last'.body.username
        /\ \E i \in 1..Len(users), p \in RawPasswords :
              /\ users[i].username = last'.body.username
              /\ users[i].hashed_password = _hash_password(p)
              /\ last'.body.password = _hash_password(p)
        => LoginSucceeded ]_vars

C4_Witness ==
    /\ LoginPost(last)
    /\ last.status = 200
    /\ last.body.next = Some(<<"/", "a">>)
    /\ last.redirect = Some(<<"/", "a">>)
    /\ last.set_cookie # NoneVal /\ last.set_cookie[1] \in DOMAIN sessions

\* A redirect value a browser resolves on the origin of the page: a path
\* that starts with one "/" not followed by "/" or "\".
SameOriginPath(r) ==
    /\ r # <<>> /\ r[1] = "/"
    /\ Len(r) >= 2 => r[2] \notin {"/", "\\"}

\* C5: the redirect of every successful login is a same-origin relative
\* path, and "/" whenever next is empty or does not start with "/".
C5_RedirectSameOrigin ==
    [][ LoginPost(last') /\ last'.status = 200
        => /\ last'.redirect # NoneVal
           /\ SameOriginPath(last'.redirect[1])
           /\ (last'.body.next # NoneVal
                 /\ (last'.body.next[1] = <<>> \/ Head(last'.body.next[1]) # "/")
               => last'.redirect = Some(<<"/">>)) ]_vars

\* C10: the status of a login POST with a JSON object body: 400 when the
\* trimmed username or the password is empty, with the manager unchanged;
\* else 423 when the manager was locked, with the attempt not counted; else
\* 200 when the credentials match; else 423 when this failure brought
\* failed_attempts to the threshold; else 401.
C10_LoginStatusOrder ==
    [][ LoginPost(last') =>
          LET b == last'.body
              same == UNCHANGED <<sessions, failed_attempts, lock_until,
                                  next_session_debug_id>>
          IN IF Strip(b.username) = <<>> \/ b.password = ""
             THEN last'.status = 400 /\ same
             ELSE IF lock_until # NoneVal /\ now < lock_until[1]
             THEN last'.status = 423 /\ same
             ELSE IF \E i \in 1..Len(users) :
                        /\ users[i].username = Strip(b.username)
                        /\ users[i].hashed_password = b.password
             THEN last'.status = 200
             ELSE IF failed_attempts' >= lock_after_failed_attempts
             THEN last'.status = 423
             ELSE last'.status = 401 ]_vars

C10_Witness ==
    /\ LoginPost(last)
    /\ last.status = 423 /\ ~last.locked_before
    /\ failed_attempts = lock_after_failed_attempts

(***************************************************************************)
(* Properties of the threads.                                              *)
(***************************************************************************)
\* The threads that ran a request or a sweep since the last quiet moment.
Ran == {t \in Threads : res[t] # NoneVal}

\* The request of thread t run as one uninterrupted step from the manager
\* state st: the state it leaves and its response status.
AtomicRequest(st, t) ==
    LET l == loc[t]
        body == [json_ok |-> TRUE, username |-> l.username, password |-> l.password,
                 next |-> NoneVal]
        left(r, nid, status) ==
            [sessions |-> r.sessions, failed_attempts |-> r.failed_attempts,
             lock_until |-> r.lock_until, next |-> nid, status |-> status]
    IN
    CASE l.op = "login" ->
           LET r == handle_login_post_result(users, st.sessions, st.failed_attempts,
                                             st.lock_until, st.next, now, body)
           IN left(r, r.next, r.status)
      [] l.op = "page" ->
           LET r == do_GET_result(st.sessions, st.failed_attempts, st.lock_until, now,
                                  <<"/">>, TokenCookie(l.sid))
           IN left(r, st.next, r.status)
      [] l.op = "logout" ->
           LET r == do_GET_result(st.sessions, st.failed_attempts, st.lock_until, now,
                                  LogoutPath, TokenCookie(l.sid))
           IN left(r, st.next, r.status)
      [] OTHER ->
           [sessions |-> _cleanup_sessions_result(st.sessions, now),
            failed_attempts |-> 0, lock_until |-> st.lock_until, next |-> st.next,
            status |-> 1]

\* Sessions compared up to the choice of the random ids of the new ones.
SameUpToNewIds(ss) ==
    LET new == {k \in DOMAIN ss : k >= start.next}
    IN [old |-> [k \in DOMAIN ss \ new |-> ss[k]],
        new |-> [s \in {ss[k] : k \in new} |-> Cardinality({k \in new : ss[k] = s})]]

Outcome(ss, fa, lu, status) ==
    [sessions |-> SameUpToNewIds(ss), failed_attempts |-> fa, lock_until |-> lu,
     status |-> status]

\* The outcome of running the requests of the threads in the given order,
\* one after the other.
RECURSIVE SerialRun(_, _, _)
SerialRun(st, order, status) ==
    IF order = <<>>
    THEN Outcome(st.sessions, st.failed_attempts, st.lock_until, status)
    ELSE LET r == AtomicRequest(st, Head(order))
         IN SerialRun(r, Tail(order), [t \in DOMAIN status \cup {Head(order)} |->
                                          IF t = Head(order) THEN r.status ELSE status[t]])

Orders(S) ==
    {o \in [1..Cardinality(S) -> S] : \A i, j \in 1..Cardinality(S) : o[i] = o[j] => i = j}

SerialOutcomes == {SerialRun(start, o, <<>>) : o \in Orders(Ran)}

\* C8: whenever the request workers and the sweep have all finished, the
\* responses they returned and the sessions, failed_attempts and lock_until
\* they left are those of some serial execution of the same operations
\* (authenticate, validate, logout and cleanup are atomic with respect to one
\* another).
C8_SerialOutcome ==
    Quiet =>
        Outcome(sessions, failed_attempts, lock_until, [t \in Ran |-> res[t][1]])
            \in SerialOutcomes

\* C9: every GET /logout that has ended, whatever ran at the same time, was
\* answered with the 302, and the session id it presented is no longer in
\* the store.
C9_LogoutAnswered ==
    \A t \in Workers :
        loc[t].op = "logout" /\ res[t] # NoneVal
            => res[t] = Some(302) /\ loc[t].sid \notin DOMAIN sessions

(***************************************************************************)
(* Properties of the template engine                                       *)
(***************************************************************************)
\* Where the document defines the block: the opening tags of that name
\* that have a closing tag after them.
DefinitionsOf(content, name) ==
    {i \in 1..Len(content) : /\ content[i].k = "block"
                             /\ content[i].a[1] = name
                             /\ ClosingAfter(content, i, "endblock") # 0}

\* The text between the tags of the definition that opens at token i.
DefinitionAt(content, i) ==
    SubSeq(content, i + 1, ClosingAfter(content, i, "endblock") - 1)

LastDefinition(content, name) ==
    LET is == DefinitionsOf(content, name)
    IN DefinitionAt(content, CHOOSE i \in is : \A m \in is : m <= i)

\* The chain member nearest to the leaf that defines the block.
MostDerived(templates, chain, name) ==
    LET ks == {k \in 1..Len(chain) : DefinitionsOf(templates[chain[k]], name) # {}}
    IN chain[CHOOSE k \in ks : \A m \in ks : k <= m]

BlockNames(content) == {content[i].a[1] : i \in {j \in 1..Len(content) : content[j].k = "block"}}

\* The root document with every block placeholder replaced by winners[name].
RECURSIVE Filled(_, _, _)
Filled(root_content, i, winners) ==
    IF i > Len(root_content) THEN <<>>
    ELSE IF root_content[i].k = "block" /\ ClosingAfter(root_content, i, "endblock") # 0
    THEN winners[root_content[i].a[1]]
         \o Filled(root_content, ClosingAfter(root_content, i, "endblock") + 1, winners)
    ELSE <<root_content[i]>> \o Filled(root_content, i + 1, winners)

RootContent == tpl.templates[tpl.chain[Len(tpl.chain)]]

\* The document is the root with each placeholder holding the text between
\* the tags of a definition in the most derived member that defines it.
C11_MostDerivedVerbatim ==
    tpl.phase = "for" =>
        \E winners \in [BlockNames(RootContent) -> UNION {
                {DefinitionAt(tpl.templates[n], i) : i \in 1..Len(tpl.templates[n])}
                    : n \in DOMAIN tpl.templates}] :
            /\ \A name \in BlockNames(RootContent) :
                  LET member == tpl.templates[MostDerived(tpl.templates, tpl.chain, name)]
                  IN \E i \in DefinitionsOf(member, name) :
                        winners[name] = DefinitionAt(member, i)
            /\ tpl.content = Filled(RootContent, 1, winners)

\* C11: after block substitution the document is the root document with
\* every block placeholder replaced by the content, stripped of the
\* whitespace at its two ends, of the last definition of that block name in
\* the chain member nearest to the leaf that defines it.
C11_MostDerivedWins ==
    tpl.phase = "for" =>
        tpl.content = Filled(RootContent, 1,
            [name \in BlockNames(RootContent) |->
                StripText(LastDefinition(
                    tpl.templates[MostDerived(tpl.templates, tpl.chain, name)], name))])

\* A extends B extends C: t is defined in C and overridden in A, u is
\* defined in C only.
C11_Witness ==
    /\ tpl.phase = "for"
    /\ tpl.chain = <<"A", "B", "C">>
    /\ DefinitionsOf(tpl.templates["A"], "t") # {}
    /\ DefinitionsOf(tpl.templates["C"], "t") # {}
    /\ DefinitionsOf(tpl.templates["C"], "u") # {}
    /\ DefinitionsOf(tpl.templates["A"], "u") = {}
    /\ DefinitionsOf(tpl.templates["B"], "u") = {}

\* The names met by following extends from name for at most steps steps.
RECURSIVE Walk(_, _, _)
Walk(templates, name, steps) ==
    IF steps = 0 THEN <<>>
    ELSE LET e == ExtendsOf(templates[name])
         IN <<name>> \o (IF e = NoneVal THEN <<>> ELSE Walk(templates, e[1], steps - 1))

NoRepeats(chain) == \A i, j \in 1..Len(chain) : chain[i] = chain[j] => i = j

\* Following extends from the start template comes back to a name.
Revisits == ~NoRepeats(Walk(tpl.templates, tpl.template_name,
                            Cardinality(DOMAIN tpl.templates) + 1))

\* The start template and every extends target are in the directory.
Closed ==
    /\ tpl.template_name \in DOMAIN tpl.templates
    /\ \A n \in DOMAIN tpl.templates :
          ExtendsOf(tpl.templates[n]) = NoneVal
              \/ ExtendsOf(tpl.templates[n])[1] \in DOMAIN tpl.templates

ResolutionOutcome ==
    Closed =>
        /\ tpl.loads <= Cardinality(DOMAIN tpl.templates) + 1
        /\ tpl.phase = "raised" =>
              /\ Revisits
              /\ \E n \in DOMAIN tpl.templates : tpl.exc = Some(CircularInheritance(n))
        /\ tpl.phase = "collect" =>
              /\ ~Revisits
              /\ NoRepeats(tpl.chain)
              /\ tpl.chain = Walk(tpl.templates, tpl.template_name,
                                  Cardinality(DOMAIN tpl.templates) + 1)
              /\ ExtendsOf(tpl.templates[tpl.chain[Len(tpl.chain)]]) = NoneVal

\* C12: when the start template and every extends target exist, inheritance
\* resolution loads at most (number of templates + 1) names and comes to an
\* end: with the circular-inheritance error exactly when following extends
\* from the start template revisits a name, otherwise with the chain of all
\* the names followed, none repeated, ending at a template without extends.
C12_ResolutionTerminates ==
    /\ []ResolutionOutcome
    /\ <>(tpl.phase \in {"raised", "collect"})

\* A extends B extends C extends A, resolved from A.
C12_Witness ==
    /\ Closed
    /\ tpl.phase = "raised"
    /\ tpl.chain = <<"A", "B", "C">>
    /\ tpl.exc = Some(CircularInheritance("A"))

\* C17: a finished call of render_template has returned a string; when the
\* start template or one of its ancestors is missing, or the inheritance is
\* circular, or a step raised anything else, the string is the inline HTML
\* error fragment carrying the error's text.
C17_NeverRaises ==
    tpl.phase = "done" =>
        /\ tpl.ret # NoneVal
        /\ tpl.exc # NoneVal => tpl.ret = Some(ErrorFragment(tpl.exc[1]))
        /\ \A k \in 1..Len(tpl.chain) :
              tpl.chain[k] \notin DOMAIN tpl.templates
                  => tpl.ret = Some(ErrorFragment(TemplateNotFound(tpl.chain[k])))
        /\ Closed /\ Revisits =>
              \E n \in DOMAIN tpl.templates :
                  tpl.ret = Some(ErrorFragment(CircularInheritance(n)))
        /\ Closed /\ ~Revisits => tpl.ret = Some(tpl.content)

\* A extends B, B extends the missing M: the call has returned.
C17_Witness ==
    /\ tpl.phase = "done"
    /\ tpl.chain = <<"A", "B", MissingTemplate>>
    /\ tpl.ret = Some(ErrorFragment(TemplateNotFound(MissingTemplate)))

\* The document of a finished call on P.
Rendered == tpl.phase = "done" /\ tpl.template_name = "P"
Doc == tpl.templates["P"]

RECURSIVE JoinTexts(_)
JoinTexts(values) ==
    IF values = <<>> THEN <<>> ELSE ValueText(Head(values)) \o JoinTexts(Tail(values))

\* A document <{{ path }}> whose path has a value renders as < value >.
TopLevelVerbatim ==
    Rendered /\ Doc \in VarDocs /\ Resolve(Doc[2].a, tpl.context) # NoneVal
        => tpl.ret = Some(<<Txt("<")>> \o ValueText(Resolve(Doc[2].a, tpl.context)[1])
                              \o <<Txt(">")>>)

\* A loop over a list whose body is {{ item }} renders as the elements'
\* texts one after the other.
LoopBodyVerbatim ==
    /\ Rendered
    /\ Len(Doc) = 7
    /\ Doc[2].k = "for"
    /\ Doc[3] = Var(<<"item">>, <<>>, "spaced")
    /\ Doc[2].a[2] \in DOMAIN tpl.context
    /\ IsKind(tpl.context[Doc[2].a[2]], "l")
    => tpl.ret = Some(<<Txt("<")>> \o JoinTexts(tpl.context[Doc[2].a[2]].l)
                          \o <<Txt("|")>> \o replace_variable(Doc[6], tpl.context)
                          \o <<Txt(">")>>)

\* C13: the text substituted for a placeholder is in the final output as
\* it is in the context, for a top-level placeholder and for a placeholder
\* in a for-loop body, also when the value spells a placeholder or a
\* conditional.
C13_SubstitutionVerbatim == TopLevelVerbatim /\ LoopBodyVerbatim

\* C14: a document <{{ path }}> or <{{ path | default }}>, in either
\* spelling: when the path is absent from the context the output is the
\* default where there is one and otherwise the document as it was written;
\* when it is present the output is the value's text, never the default.
C14_MissingPlaceholder ==
    Rendered /\ Doc \in VarDocs =>
        LET r == Resolve(Doc[2].a, tpl.context) IN
        tpl.ret = Some(IF r # NoneVal
                       THEN <<Txt("<")>> \o ValueText(r[1]) \o <<Txt(">")>>
                       ELSE IF Doc[2].b # <<>>
                       THEN <<Txt("<"), Txt(Doc[2].b[1]), Txt(">")>>
                       ELSE Doc)

\* The same for the placeholders written with one space inside the braces.
SpacedPlaceholder ==
    Rendered /\ Doc \in VarDocs /\ Doc[2].c = "spaced" =>
        LET r == Resolve(Doc[2].a, tpl.context) IN
        tpl.ret = Some(IF r # NoneVal
                       THEN <<Txt("<")>> \o ValueText(r[1]) \o <<Txt(">")>>
                       ELSE IF Doc[2].b # <<>>
                       THEN <<Txt("<"), Txt(Doc[2].b[1]), Txt(">")>>
                       ELSE Doc)

\* The value at a dotted path when only the fields of a loop object and
\* the keys of a dict count as segments; <<>> when a segment is missing.
RECURSIVE FindByKey(_, _)
FindByKey(value, parts) ==
    IF parts = <<>> THEN Some(value)
    ELSE IF IsKind(value, "o") /\ Head(parts) \in DOMAIN value.o
    THEN FindByKey(PyInt(value.o[Head(parts)]), Tail(parts))
    ELSE IF IsKind(value, "d") /\ Head(parts) \in DOMAIN value.d
    THEN FindByKey(value.d[Head(parts)], Tail(parts))
    ELSE NoneVal

LookupByKey(parts, context) ==
    IF parts[1] \notin DOMAIN context THEN NoneVal
    ELSE FindByKey(context[parts[1]], Tail(parts))

\* The literals among the right-hand sides.
LiteralValue(rhs) ==
    CASE rhs = <<"\"", "x", "\"">> -> Str("x")
      [] rhs = <<"1">> -> PyInt(1)
      [] rhs = <<"true">> -> PyBool(TRUE)

\* The branch the claim gives a condition whose path has the value found
\* (<<>> when a segment is missing).
IfBranch(condition, found) ==
    CASE condition.c = "==" -> found # NoneVal /\ PyEq(found[1], LiteralValue(condition.b))
      [] condition.c = "!=" -> found = NoneVal \/ ~PyEq(found[1], LiteralValue(condition.b))
      [] OTHER -> found # NoneVal /\ Truthy(found[1])

\* A document that is one conditional on a bare path or on path and literal.
OneConditional ==
    /\ Rendered
    /\ Doc \in IfDocs
    /\ Len(Doc) = 5
    /\ \E i \in 1..2 : Doc[i].k = "if" /\ Doc[i].b # <<"n">>

TheCondition == IF Doc[1].k = "if" THEN Doc[1] ELSE Doc[2]

ConditionalOutput(branch) ==
    IF Doc[1].k = "if" THEN (IF branch THEN <<Txt("Y")>> ELSE <<Txt("N")>>)
    ELSE <<Txt("<")>> \o (IF branch THEN <<Txt("Y")>> ELSE <<>>) \o <<Txt(">")>>

\* The claim with a segment missing when it is not a key of the map (or a
\* field of the loop object) it is looked up in.
C15_MissingIsNoKey ==
    OneConditional =>
        /\ tpl.exc = NoneVal
        /\ tpl.ret = Some(ConditionalOutput(
               IfBranch(TheCondition, LookupByKey(TheCondition.a, tpl.context))))

\* C15: evaluating a condition raises nothing; a segment being missing when
\* it names neither an attribute of the value reached (the methods of a
\* dict included) nor a key of it, a path with a missing segment makes a
\* bare condition and path == literal select the else branch (nothing when
\* there is no else) and path != literal the if branch, and path == literal
\* selects the if branch exactly when the value found equals the literal.
C15_ConditionOnPath ==
    OneConditional =>
        /\ tpl.exc = NoneVal
        /\ tpl.ret = Some(ConditionalOutput(
               IfBranch(TheCondition, Resolve(TheCondition.a, tpl.context))))

\* a.b == "x" rendered against {a: {}} is N.
C15_Witness ==
    /\ Rendered
    /\ Doc = <<If(<<"a", "b">>, "==", <<"\"", "x", "\"">>), Txt("Y"), Else, Txt("N"), EndIf>>
    /\ tpl.context = [a |-> PyDict(<<>>)]
    /\ tpl.ret = Some(<<Txt("N")>>)

\* The context of iteration i (from 0): the parent's entries, the loop
\* variable bound to the element, and loop with its counters.
ChildContext(context, loop_var, element, i) ==
    [n \in DOMAIN context \cup {loop_var, "loop"} |->
        IF n = loop_var THEN element
        ELSE IF n = "loop" THEN [o |-> [index |-> i, index0 |-> i, index1 |-> i + 1]]
        ELSE context[n]]

\* The renderings of the body for the elements from i on, one after the
\* other: the conditionals first, then the variables.
RECURSIVE Expansion(_, _, _, _, _)
Expansion(body, loop_var, elements, i, context) ==
    IF i >= Len(elements) THEN <<>>
    ELSE LET child == ChildContext(context, loop_var, elements[i + 1], i)
         IN _process_variables(_process_if_statements(body, child), child)
            \o Expansion(body, loop_var, elements, i + 1, context)

\* The source of the loop of a document is a list, or is missing, or is a
\* value that is no sequence.
ListSource == Doc[2].a[2] \in DOMAIN tpl.context /\ IsKind(tpl.context[Doc[2].a[2]], "l")
NoSource ==
    \/ Doc[2].a[2] \notin DOMAIN tpl.context
    \/ \E f \in {"s", "i", "b", "none"} : IsKind(tpl.context[Doc[2].a[2]], f)

\* C16: the loop step replaces a loop over a list of n elements by the n
\* renderings of its body in order, the i-th against the child context of
\* element i, and a loop over a missing, non-iterable or string source by
\* nothing; the text around the loop and the caller's context are as before.
C16_LoopExpansion ==
    [][ /\ tpl.phase = "for"
        /\ tpl'.phase = "if"
        /\ tpl.template_name = "P"
        /\ Doc \in ForDocs
        /\ ListSource \/ NoSource
        => /\ tpl'.content =
                <<Doc[1]>>
                \o (IF ListSource
                    THEN Expansion(SubSeq(Doc, 3, Len(Doc) - 4), Doc[2].a[1],
                                   tpl.context[Doc[2].a[2]].l, 0, tpl.context)
                    ELSE <<>>)
                \o SubSeq(Doc, Len(Doc) - 2, Len(Doc))
           /\ tpl'.context = tpl.context ]_vars

\* {% if item.active %}{{item.name}}{% endif %} over p (active) and q (not
\* active) has been expanded to p, and {{ item | d }} after the loop is
\* still to be rendered against the caller's item.
C16_Witness ==
    /\ tpl.phase = "if"
    /\ tpl.template_name = "P"
    /\ Doc \in ForDocs
    /\ Doc[3] = If(<<"item", "active">>, "", <<>>)
    /\ ListSource
    /\ Len(tpl.context[Doc[2].a[2]].l) = 2
    /\ tpl.content = <<Txt("<"), Txt("p"), Txt("|"), Var(<<"item">>, <<"d">>, "spaced"),
                       Txt(">")>>

(***************************************************************************)
(* Properties of the API handlers and of do_POST                           *)
(***************************************************************************)
\* The callbacks of the APIs registered for the path.
RegisteredFor(apis, path) ==
    {apis[i].callback : i \in {j \in 1..Len(apis) : path \in apis[j].urls}}

\* The status answered for what the callback returned.
AnsweredStatus(status) ==
    IF status = NoneVal THEN 200 ELSE IF status[1] = 0 THEN 200 ELSE status[1]

\* C18: a GET under /api/ that passes the session gate (authentication off,
\* or a live session cookie): when an API is registered for the path and its
\* callback returns, the callback of an API registered for the path has been
\* called once with the query parameters and the answer has the callback's
\* status (200 for none or 0), the body {"data": payload} and the header
\* Access-Control-Allow-Origin: *; when none is registered, the answer is 404
\* and no callback has been called.
C18_GetApiEnvelope ==
    [][ /\ last'.op = "api_get"
        /\ ~auth_required \/ LiveCookie(last'.cookie)
        => LET path == UrlPath(last'.target)
               callbacks == RegisteredFor(last'.apis, path)
           IN IF callbacks = {}
              THEN last'.status = 404 /\ last'.calls = <<>>
              ELSE ~last'.outcome.raises =>
                      /\ Len(last'.calls) = 1
                      /\ last'.calls[1].callback \in callbacks
                      /\ last'.calls[1].args = <<QueryParams(last'.target)>>
                      /\ last'.status = AnsweredStatus(last'.outcome.status)
                      /\ last'.body = <<"{", "\"data\"", ":", last'.outcome.data, "}">>
                      /\ last'.cors ]_vars

\* GET /api/events?name=e with a live session: the callback got {name: e}
\* and its status 400 is the answer's.
C18_Witness ==
    /\ last.op = "api_get"
    /\ auth_required
    /\ last.cookie.token # NoneVal
    /\ last.target = <<"/", "api", "/", "events", "?", "name", "=", "e">>
    /\ last.calls = <<[callback |-> "events_api", args |-> <<[name |-> "e"]>>]>>
    /\ last.status = 400
    /\ last.cors

ValidJson(request) == request.utf8 /\ request.text \in {"{}", "{\"events\": []}"}

\* What the claim requires of the answer to a POST whose body is request.
PostApiAnswer(request) ==
    LET path == UrlPath(last.target)
        callbacks == RegisteredFor(last.apis, path)
    IN IF callbacks = {} THEN last.status = 404 /\ last.calls = <<>>
       ELSE IF ~ValidJson(request) THEN last.status = 400 /\ last.calls = <<>>
       ELSE ~last.outcome.raises =>
               /\ Len(last.calls) = 1
               /\ last.calls[1].callback \in callbacks
               /\ last.calls[1].args[2] = last.headers
               /\ last.calls[1].args[1].kind = "object"
               /\ last.status = AnsweredStatus(last.outcome.status)
               /\ last.body = <<last.outcome.data>>

\* C19: a POST to a path other than /api/login: 404 when no POST API is
\* registered for it; 400 and no call when the body is not valid JSON;
\* otherwise one call with (parsed body, header map) and the callback's
\* payload and status as the answer, without envelope.
C19_PostApi == last.op = "api_post" => PostApiAnswer(last.request)

\* The same for the bodies that are UTF-8 text.
TextBodyPostApi == last.op = "api_post" /\ last.request.utf8 => PostApiAnswer(last.request)

C21_LogoutRemovesExactly ==
    [][ /\ last'.op = "logout"
           => /\ last'.ret = (last'.sid \in DOMAIN sessions)
              /\ DOMAIN sessions' = DOMAIN sessions \ {last'.sid}
              /\ \A k \in DOMAIN sessions' : sessions'[k] = sessions[k]
              /\ failed_attempts' = failed_attempts
              /\ lock_until' = lock_until
              /\ logout_ret(sessions', last'.sid) = FALSE
              /\ retrieve_user_by_session_id_ret(sessions', last'.sid, now') = NoneVal
        /\ last'.op \in {"logout", "retrieve_user_by_session_id"}
              /\ last'.sid \notin DOMAIN sessions
           => /\ last'.ret = (IF last'.op = "logout" THEN FALSE ELSE NoneVal)
              /\ sessions' = sessions ]_vars

\* A logout that returned true and left another session in the store.
C21_Witness ==
    /\ last.op = "logout"
    /\ last.ret = TRUE
    /\ sessions # <<>>
    /\ last.sid \notin DOMAIN sessions

\* C22: init_auth_manager called when an instance exists raises and leaves
\* the instance, its users, sessions, failure counter and lock as they
\* were; get_auth_manager called before any initialization raises and
\* returns no manager.
C22_SingletonGuard ==
    [][ /\ last'.op = "init_auth_manager" /\ _auth_manager # NoneVal
           => /\ last'.raised = Some(AlreadyInitialized)
              /\ last'.ret = NoneVal
              /\ _auth_manager' = _auth_manager
              /\ users' = users
              /\ sessions' = sessions
              /\ failed_attempts' = failed_attempts
              /\ lock_until' = lock_until
        /\ last'.op = "get_auth_manager" /\ _auth_manager = NoneVal
           => /\ last'.raised = Some(NotInitialized)
              /\ last'.ret = NoneVal
              /\ _auth_manager' = NoneVal ]_vars

\* A second initialization was refused while the manager held a user, a
\* session and a lock.
C22_Witness ==
    /\ last.op = "init_auth_manager"
    /\ last.raised # NoneVal
    /\ users # <<>>
    /\ sessions # <<>>
    /\ lock_until # NoneVal

\* The lock is set and has not elapsed at time t.
LockActive(lu, t) == lu # NoneVal /\ t < lu[1]

\* C23: while the lock is active, authenticate with any username and any
\* password, right or wrong, returns none and leaves the failure counter,
\* the lock and the session store as they were.
C23_LockedAuthenticateIsNoOp ==
    [][ last'.op = "authenticate" /\ LockActive(lock_until, now)
           => /\ last'.ret = NoneVal
              /\ failed_attempts' = failed_attempts
              /\ lock_until' = lock_until
              /\ sessions' = sessions
              /\ next_session_debug_id' = next_session_debug_id ]_vars

\* The right credentials were refused under an active lock.
C23_Witness ==
    /\ last.op = "authenticate"
    /\ CorrectCredentials(last)
    /\ last.ret = NoneVal
    /\ LockActive(lock_until, now)
    /\ failed_attempts = lock_after_failed_attempts

\* C24: the lock goes from unset to set only in an authenticate step that
\* fails and whose incremented failure counter has reached the threshold;
\* every other step of the manager leaves an unset lock unset, and a failed
\* authenticate that ends below the threshold ends with the lock unset.
C24_LockSetOnlyAtThreshold ==
    [][ /\ lock_until = NoneVal /\ lock_until' # NoneVal
           => /\ last'.op = "authenticate"
              /\ last'.ret = NoneVal
              /\ failed_attempts' = failed_attempts + 1
              /\ failed_attempts' >= lock_after_failed_attempts
              /\ lock_until' = Some(now + lock_after_failed_attempts_time_minutes)
        /\ /\ last'.op = "authenticate"
           /\ last'.ret = NoneVal
           /\ ~LockActive(lock_until, now)
           /\ failed_attempts' < lock_after_failed_attempts
           => lock_until' = NoneVal ]_vars

\* A failed authenticate has just set the lock, at the threshold.
C24_Witness ==
    /\ last.op = "authenticate"
    /\ ~CorrectCredentials(last)
    /\ lock_until = Some(now + lock_after_failed_attempts_time_minutes)
    /\ failed_attempts = lock_after_failed_attempts
    /\ sessions # <<>>

\* C25: a successful authenticate adds one session to the store, under an
\* id that was not a key of the store, bound to the registered user whose
\* name and password were given and stamped with the time of the call; it
\* leaves every session that was in the store as it was and resets the
\* failure counter to 0.
C25_SuccessAddsOneSession ==
    [][ last'.op = "authenticate" /\ last'.ret # NoneVal
           => LET user == last'.ret[1][1]
                  session_id == last'.ret[1][2]
              IN /\ session_id \notin DOMAIN sessions
                 /\ DOMAIN sessions' = DOMAIN sessions \cup {session_id}
                 /\ Cardinality(DOMAIN sessions') = Cardinality(DOMAIN sessions) + 1
                 /\ \A k \in DOMAIN sessions : sessions'[k] = sessions[k]
                 /\ sessions'[session_id] = Session(user, now)
                 /\ \E i \in 1..Len(users) : users[i] = user
                 /\ user.username = last'.username
                 /\ CorrectCredentials(last')
                 /\ failed_attempts' = 0 ]_vars

\* A second session of the same user has just been opened next to the first,
\* after a failed attempt had been counted.
C25_Witness ==
    /\ last.op = "authenticate"
    /\ last.ret # NoneVal
    /\ \E a, b \in DOMAIN sessions :
          /\ a # b
          /\ sessions[a].user = sessions[b].user
          /\ b = last.ret[1][2]
          /\ sessions[a].last_access < sessions[b].last_access
    /\ failed_attempts = 0

\* C26: a sweep removes the sessions whose inactivity now - last_access
\* exceeds the timeout and no other, leaves the sessions it keeps as they
\* were, sets the failure counter to 0 whatever it was and leaves the lock
\* as it was, so that a lock active before the sweep is active after it.
C26_SweepFrame ==
    [][ last'.op = "_cleanup_sessions"
           => /\ DOMAIN sessions' =
                    {k \in DOMAIN sessions :
                        ~(now - sessions[k].last_access > session_timeout_hours)}
              /\ \A k \in DOMAIN sessions' : sessions'[k] = sessions[k]
              /\ failed_attempts' = 0
              /\ lock_until' = lock_until
              /\ LockActive(lock_until, now) => LockActive(lock_until', now') ]_vars

\* A sweep under an active lock removed one session and kept another.
C26_Witness ==
    /\ last.op = "_cleanup_sessions"
    /\ last.removed # {}
    /\ sessions # <<>>
    /\ LockActive(lock_until, now)
    /\ failed_attempts = 0

\* C27: as long as every interval between two consecutive sweeps (the one
\* open now and the one before the first sweep included) has held fewer
\* than N authenticate calls that failed, the lock has never been set and
\* the failure counter is at most the number of failures of the open
\* interval, however many calls have failed in the whole run.
C27_SweepUnderminesLockout ==
    streak.under => /\ lock_until = NoneVal
                    /\ failed_attempts <= streak.since
                    /\ failed_attempts < lock_after_failed_attempts

\* N authenticate calls have failed, with a sweep in between and no
\* successful login ever, and the manager is not locked.
C27_Witness ==
    /\ streak.under
    /\ streak.total = lock_after_failed_attempts
    /\ streak.since = lock_after_failed_attempts - 1
    /\ last.op = "authenticate" /\ last.ret = NoneVal
    /\ next_session_debug_id = 1
    /\ lock_until = NoneVal

\* C28 as stated: with authentication enabled, a POST to a path for which a
\* POST API is registered, from a client without a live session cookie, is
\* answered 401 and calls no callback.
C28_PostSessionGate ==
    /\ last.op = "api_post"
    /\ auth_required
    /\ RegisteredFor(last.apis, UrlPath(last.target)) # {}
    /\ ~LiveCookie(last.cookie)
    => last.status = 401 /\ last.calls = <<>>

\* C28: the session gate is on GET alone.  A POST to a path for which a POST
\* API is registered is handled the same whatever cookie the client sends
\* and whether or not authentication is enabled: with a JSON body the
\* callback is called once with the parsed body and the header map, and its
\* payload and status are the answer; the manager is not consulted and its
\* sessions stay as they were.
C28_PostNotGated ==
    [][ /\ last'.op = "api_post"
        /\ RegisteredFor(last'.apis, UrlPath(last'.target)) # {}
        => /\ sessions' = sessions
           /\ ValidJson(last'.request)
              => /\ Len(last'.calls) = 1
                 /\ last'.calls[1].callback \in
                       RegisteredFor(last'.apis, UrlPath(last'.target))
                 /\ last'.calls[1].args =
                       <<JsonValues[last'.request.text], last'.headers>>
                 /\ ~last'.outcome.raises
                    => /\ last'.status = AnsweredStatus(last'.outcome.status)
                       /\ last'.body = <<last'.outcome.data>> ]_vars

\* With authentication enabled and no cookie at all, POST /api/events ran
\* the callback and was answered 200.
C28_Witness ==
    /\ last.op = "api_post"
    /\ auth_required
    /\ last.cookie = NoCookie
    /\ last.target = EventsApiPath
    /\ Len(last.calls) = 1
    /\ last.status = 200

\* C29: a GET answered with a rendered page carries the header that deletes
\* the auth_token cookie if and only if the request presented an auth_token
\* cookie that names no live session; the cookie of a live session is never
\* deleted by a page, /login and /logged_out_page included.
C29_StaleCookieDeletion ==
    [][ last'.op = "GET" /\ last'.handler = "view"
           => (last'.delete_cookie
                  <=> last'.cookie.has /\ ~LiveCookie(last'.cookie)) ]_vars

(***************************************************************************)
(* Properties of the failure paths                                         *)
(***************************************************************************)
\* The text m is part of the body.
Mentions(body, m) == \E i \in 1..Len(body) : body[i] = m

\* C30: a request whose API callback (GET or POST) or whose view
\* context-processor raises is answered 500 with the generic body, and no
\* answer of a page or of an API carries the text of an exception.
C30_Generic500 ==
    /\ last.op \in {"api_get", "api_post"} /\ last.calls # <<>> /\ last.outcome.raises
       => last.status = 500 /\ last.body = <<"Internal Server Error">>
    /\ last.op = "page_get" /\ last.reached /\ last.processor.raises
       => /\ last.answered
          /\ last.status = 500
          /\ last.body = <<"Internal Server Error">>
    /\ last.op \in {"api_get", "api_post", "page_get"}
       => \A m \in ErrorTexts : ~Mentions(last.body, m)

\* The part of C30 that holds: an API callback that raises, on GET or POST,
\* is answered 500 with the generic body.
ApiFailuresGeneric ==
    /\ last.op \in {"api_get", "api_post"} /\ last.calls # <<>> /\ last.outcome.raises
       => /\ last.status = 500
          /\ last.body = <<"Internal Server Error">>
          /\ \A m \in ErrorTexts : ~Mentions(last.body, m)

(***************************************************************************)
(* Properties of the page contexts                                         *)
(***************************************************************************)
\* What request r shows of the copied context carries no write of another
\* request.
OwnContext(r) ==
    /\ r.seen.context.events \in {0, r.id}
    /\ r.seen.context.collectors[1].status \in {0, r.id}
    /\ r.seen.context.page_title = RegisteredContext.page_title

\* C31 as stated: the registered context equals its value at registration,
\* and a request shows nothing that the context processor of another
\* request wrote, whatever the processor changed in the context it got.
C31_NoSharedWrites ==
    /\ heap.obj[SeedAddr] = RegisteredContext
    /\ \A w \in Workers :
          LET r == heap.req[w] IN
          r.phase = "done"
             => /\ OwnContext(r)
                /\ \A i \in 1..Len(r.seen.top_bar_links) : r.seen.top_bar_links[i] = r.id

\* C31: the registered context equals its value at registration, and of
\* the keys copied from it and of the keys a processor added, a request
\* shows only its own processor's writes; the list config["top_bar_links"]
\* is the same object in every request's context.
C31_SeedIsolated ==
    /\ heap.obj[SeedAddr] = RegisteredContext
    /\ \A w \in Workers :
          LET r == heap.req[w] IN
          /\ r.phase = "done" => OwnContext(r)
          /\ r.phase \in {"copied", "processed"} => r.base # SeedAddr

\* Two requests in flight at once have each changed the nested collectors
\* list of their context and each shows its own value.
C31_Witness ==
    \E v, w \in Workers :
        /\ v # w
        /\ heap.req[v].phase = "done" /\ heap.req[w].phase = "done"
        /\ heap.req[v].mutation = "nested" /\ heap.req[w].mutation = "nested"
        /\ heap.req[v].seen.context.collectors[1].status = heap.req[v].id
        /\ heap.req[w].seen.context.collectors[1].status = heap.req[w].id
        /\ heap.obj[SeedAddr] = RegisteredContext

(***************************************************************************)
(* Properties of the threads, continued                                    *)
(***************************************************************************)
\* C32: a sweep that runs while request workers log in, validate and log
\* out never ends by an exception, and when it has ended no session is left
\* in the store that had expired when it started.
C32_SweepCompletes ==
    /\ res[SweepThread] # Some(0)
    /\ res[SweepThread] = Some(1)
       => \A k \in DOMAIN sessions :
             ~(now - sessions[k].last_access > session_timeout_hours)

(***************************************************************************)
(* Properties of the conditional expansion.                                *)
(***************************************************************************)
IfCount(s) == Cardinality({i \in 1..Len(s) : s[i].k = "if"})

NoIfTags(s) == \A i \in 1..Len(s) : s[i].k \notin {"if", "else", "endif"}

\* Every endif closes an if, every else lies directly in an if that has no
\* else yet, and no if is left open; open holds, for each open if, whether
\* its else was seen.
RECURSIVE WellNestedFrom(_, _, _)
WellNestedFrom(s, pos, open) ==
    IF pos > Len(s) THEN open = <<>>
    ELSE CASE s[pos].k = "if" -> WellNestedFrom(s, pos + 1, <<FALSE>> \o open)
           [] s[pos].k = "else" ->
                /\ open # <<>>
                /\ ~Head(open)
                /\ WellNestedFrom(s, pos + 1, <<TRUE>> \o Tail(open))
           [] s[pos].k = "endif" ->
                open # <<>> /\ WellNestedFrom(s, pos + 1, Tail(open))
           [] OTHER -> WellNestedFrom(s, pos + 1, open)

WellNested(s) == WellNestedFrom(s, 1, <<>>)

\* In a well-nested text, the endif that closes the if opened before pos
\* and the else of that if (0 when it has none).
RECURSIVE ConstructEnds(_, _, _, _)
ConstructEnds(s, pos, depth, else_at) ==
    CASE s[pos].k = "if" -> ConstructEnds(s, pos + 1, depth + 1, else_at)
      [] s[pos].k = "endif" ->
           IF depth = 1 THEN [else_at |-> else_at, end |-> pos]
           ELSE ConstructEnds(s, pos + 1, depth - 1, else_at)
      [] s[pos].k = "else" /\ depth = 1 -> ConstructEnds(s, pos + 1, depth, pos)
      [] OTHER -> ConstructEnds(s, pos + 1, depth, else_at)

\* The recursive evaluation of a well-nested text: of each construct only
\* the branch its condition chooses is kept, itself evaluated.
RECURSIVE Evaluate(_, _)
Evaluate(s, context) ==
    IF s = <<>> THEN <<>>
    ELSE IF Head(s).k # "if" THEN <<Head(s)>> \o Evaluate(Tail(s), context)
    ELSE LET m == ConstructEnds(s, 2, 1, 0)
             if_branch == SubSeq(s, 2, (IF m.else_at # 0 THEN m.else_at ELSE m.end) - 1)
             else_branch == IF m.else_at # 0 THEN SubSeq(s, m.else_at + 1, m.end - 1)
                            ELSE <<>>
         IN Evaluate(IF _evaluate_condition(Head(s), context)
                     THEN if_branch ELSE else_branch, context)
                \o Evaluate(SubSeq(s, m.end + 1, Len(s)), context)

\* Every turn of the loop takes one if tag away, so that the loop ends, and
\* what it returns is what the expansion as one step returns.
IfTagsDecrease ==
    tpl.phase \in {"if_turn", "if_done"} =>
        /\ IfCount(tpl.content) + tpl.turns <= IfCount(tpl.doc)
        /\ tpl.phase = "if_done" =>
              tpl.content = _process_if_statements(tpl.doc, tpl.context)

HasOnlyCanonicalElse(s) == \A i \in 1..Len(s) : s[i].k = "else" => s[i] = Else

\* The expansion of a well-nested text whose else tags are all spelled
\* "{% else %}" is its recursive evaluation, with no tag left.
IfExpansionCanonical ==
    tpl.phase = "if_done" /\ WellNested(tpl.doc) /\ HasOnlyCanonicalElse(tpl.doc) =>
        /\ tpl.content = Evaluate(tpl.doc, tpl.context)
        /\ NoIfTags(tpl.content)

\* C33: the expansion of conditionals ends on every text, each turn of its
\* loop taking one if tag away, and for a well-nested text the result is the
\* recursive evaluation that keeps the chosen branch of each construct, with
\* no if, else or endif tag left in it.
C33_IfExpansion ==
    /\ tpl.phase \in {"if_turn", "if_done"} =>
          IfCount(tpl.content) + tpl.turns <= IfCount(tpl.doc)
    /\ tpl.phase = "if_done" /\ WellNested(tpl.doc) =>
          /\ tpl.ret = Some(Evaluate(tpl.doc, tpl.context))
          /\ NoIfTags(tpl.ret[1])

\* The request of thread t was a login with credentials that match no user.
FailedLogin(t) ==
    /\ loc[t].op = "login"
    /\ res[t] # NoneVal
    /\ FindUser(users, loc[t].username,
                HashedPassword(loc[t].password, DefaultPasswordIsHashed)) = 0

\* C34: no increment of failed_attempts is lost: when the manager was
\* unlocked with failed_attempts = 0 and every request worker has since made
\* one failed login, at the same time or not and with no sweep or successful
\* login in between, the counter holds one increment per login, so that as
\* many failed logins as lock_after_failed_attempts leave the manager locked.
C34_NoLostIncrement ==
    /\ Quiet
    /\ res[SweepThread] = NoneVal
    /\ start.failed_attempts = 0
    /\ start.lock_until = NoneVal
    /\ \A t \in Workers : FailedLogin(t)
    => /\ failed_attempts = NumWorkers
       /\ NumWorkers >= lock_after_failed_attempts => lock_until # NoneVal

\* C35: in every interleaving of login requests, no step of a login creates
\* a session, answers 200, resets failed_attempts or pushes lock_until
\* further out at a moment when the lock is active.
C35_NoLoginWhileLocked ==
    [][\A t \in Workers :
          /\ LockActive(lock_until, now)
          /\ loc[t].op = "login"
          /\ pc'[t] # pc[t]
          => /\ DOMAIN sessions' \subseteq DOMAIN sessions
             /\ res'[t] # Some(200)
             /\ failed_attempts' >= failed_attempts
             /\ lock_until' = lock_until]_vars

(***************************************************************************)
(* Properties of the manager, continued.                                   *)
(***************************************************************************)
\* C36: the lockout is one state of the manager: an authenticate that fails
\* while no lock is active adds one to the one counter, whatever username
\* it was called with, registered or not; while the lock is active
\* authenticate returns none for every user, the right credentials of a user
\* who never failed included; and the lock changes nothing in what validate
\* and logout do with a session that is in the store.
C36_GlobalLockout ==
    [][ /\ /\ last'.op = "authenticate"
           /\ ~LockActive(lock_until, now)
           /\ ~CorrectCredentials(last')
           => /\ last'.ret = NoneVal
              /\ failed_attempts' = (IF lock_until = NoneVal THEN failed_attempts ELSE 0) + 1
        /\ last'.op = "authenticate" /\ LockActive(lock_until, now)
           => /\ last'.ret = NoneVal
              /\ sessions' = sessions
        /\ /\ last'.op = "retrieve_user_by_session_id"
           /\ last'.sid \in DOMAIN sessions
           /\ now - sessions[last'.sid].last_access <= session_timeout_hours
           => /\ last'.ret = Some(sessions[last'.sid].user)
              /\ last'.sid \in DOMAIN sessions'
              /\ lock_until' = lock_until
              /\ failed_attempts' = failed_attempts
        /\ last'.op = "logout" /\ last'.sid \in DOMAIN sessions
           => /\ last'.ret = TRUE
              /\ last'.sid \notin DOMAIN sessions'
              /\ lock_until' = lock_until
              /\ failed_attempts' = failed_attempts ]_vars

\* Under a lock set by failures under an unregistered name, the registered
\* user, who never failed, was refused with the right credentials, while a
\* session opened earlier is still in the store.
C36_Witness ==
    /\ last.op = "authenticate"
    /\ CorrectCredentials(last)
    /\ last.ret = NoneVal
    /\ LockActive(lock_until, now)
    /\ streak.failed_as # {}
    /\ last.username \notin streak.failed_as
    /\ \A u \in streak.failed_as : \A i \in 1..Len(users) : users[i].username # u
    /\ sessions # <<>>

\* A session was validated and then logged out while the lock was active.
LogoutUnderLock ==
    /\ last.op = "logout"
    /\ last.ret = TRUE
    /\ LockActive(lock_until, now)

\* C37: expiry is a sliding window with no absolute lifetime: a session is
\* removed only by its logout, or by a validate of it or a sweep that comes
\* more than the timeout after its last access; a validate that comes within
\* the timeout returns its user and moves its last access to the time of the
\* call, whatever its age; and no other step (a sweep, a lock or unlock, a
\* failed or successful login, an operation on another session) removes it
\* or moves its last access.
C37_SlidingWindow ==
    [][\A sid \in DOMAIN sessions :
          LET validated == last'.op = "retrieve_user_by_session_id" /\ last'.sid = sid
              overdue == now - sessions[sid].last_access > session_timeout_hours
          IN /\ sid \notin DOMAIN sessions'
                => \/ last'.op = "logout" /\ last'.sid = sid
                   \/ overdue /\ (validated \/ last'.op = "_cleanup_sessions")
             /\ validated /\ ~overdue
                => /\ last'.ret = Some(sessions[sid].user)
                   /\ sid \in DOMAIN sessions'
                   /\ sessions'[sid].last_access = now
                   /\ sessions'[sid].created_at = sessions[sid].created_at
             /\ sid \in DOMAIN sessions' /\ ~validated
                => sessions'[sid] = sessions[sid] ]_vars

\* A session older than twice the timeout has just been validated, after
\* sweeps and after the lock was set.
C37_Witness ==
    /\ last.op = "retrieve_user_by_session_id"
    /\ last.ret # NoneVal
    /\ last.sid \in DOMAIN sessions
    /\ now - sessions[last.sid].created_at > 2 * session_timeout_hours
    /\ sessions[last.sid].last_access = now
    /\ lock_until # NoneVal

\* C38: with the sweep run again and again and the clock going on, every
\* session that is not accessed any more (whose timeout ends before the
\* clock of the model does) is removed from the store in the end, also when
\* its id is never presented again and while request workers keep creating
\* and removing other sessions.
C38_ExpiredEventuallyRemoved ==
    \A sid \in 1..MaxSessions :
        (/\ sid \in DOMAIN sessions
         /\ sessions[sid].last_access + session_timeout_hours < MaxTime)
            ~> (sid \notin DOMAIN sessions)

\* An API request whose callback returned a payload that json.dumps refuses.
UnserializablePayload ==
    /\ last.op \in {"api_get", "api_post"}
    /\ last.calls # <<>>
    /\ ~last.outcome.raises
    /\ ~Serializable(last.outcome.data)

\* Every API request is answered with one status line, except when the
\* callback's payload cannot be serialized.
ApiOneResponseElse ==
    last.op \in {"api_get", "api_post"} /\ ~UnserializablePayload
        => Len(last.lines) = 1 /\ last.lines[1] = last.status

\* C39: every handled request produces one HTTP response, one status line
\* followed by one body; when a GET or POST API callback returns a payload
\* that cannot be serialized to JSON, the client receives a single 500
\* response and not a success status line followed by an error response.
C39_OneResponse ==
    /\ last.op \in {"api_get", "api_post"} => Len(last.lines) = 1
    /\ UnserializablePayload
       => /\ last.lines = <<500>>
          /\ last.status = 500
          /\ last.body = <<"Internal Server Error">>

====
